---- MODULE Spec2Model ----
(***************************************************************************)
(* FinBot (src/finance_bot.py): the schema/migration manager, the ledger   *)
(* store, the aiogram conversation handlers and the recurring materializer *)
(* as one state machine.                                                   *)
(*                                                                         *)
(* Button labels are Cyrillic/emoji in the source; TLA+ strings are ASCII, *)
(* so every label is a transliteration, with the real label in a comment.  *)
(***************************************************************************)
EXTENDS Integers, Sequences, FiniteSets, TLC

\* ------------------------------------------------------------------ bounds
\* Rows the ledger may hold (inserts are disabled beyond it).
MaxTx == 2
\* Process starts (each runs Database.connect once).
MaxConnects == 2
\* Calendar days the clock may advance past day 0.
MaxDay == 1

Users == {1, 2}

\* ------------------------------------------------------- values and texts
Kinds == {"income", "expense"}
\* Python None: an absent description, an absent FSM state.
NoneVal == "<None>"

\* A Python float: a number in tenths, or NaN.
Num(v) == [nan |-> FALSE, val |-> v]
NaN == [nan |-> TRUE, val |-> 0]
\* Python's `amount <= 0`: every comparison with NaN is False.
FloatLE0(f) == ~f.nan /\ f.val <= 0
FloatGT0(f) == ~f.nan /\ f.val > 0

BtnCancel == "X Otmena"                      \* "❌ Отмена"
BtnBack == "<- Nazad"                        \* "⬅️ Назад"
BtnBackAlt == "<= Nazad"                     \* "🔙 Назад"
BtnBackSettings == "<- Nazad v nastrojki"    \* "⬅️ Назад в настройки"
BtnIncome == "Dohod"                         \* "📈 Доход"
BtnExpense == "Rashod"                       \* "📉 Расход"
BtnBalance == "Balans"                       \* "💰 Баланс"
BtnStatistics == "Statistika"                \* "📊 Статистика"
BtnHistory == "Istoriya"                     \* "📋 История"
BtnSettings == "Nastrojki"                   \* "⚙️ Настройки"
BtnCategories == "Kategorii"                 \* "📋 Категории"
BtnAddCategory == "+ Dobavit kategoriyu"     \* "➕ Добавить категорию"
BtnIncomes == "Dohody"                       \* "📈 Доходы"
BtnExpenses == "Rashody"                     \* "📉 Расходы"
BtnDeleteCategory == "Udalit kategoriyu"     \* "🗑️ Удалить категорию"
BtnLimits == "Limity"                        \* "💸 Лимиты"
BtnSetLimit == "+ Ustanovit limit"           \* "➕ Установить лимит"
BtnLimitIncome == "Limit dohodov"            \* "📈 Лимит доходов"
BtnLimitExpense == "Limit rashodov"          \* "📉 Лимит расходов"
BtnRecurring == "Regulyarnye"                \* "🔁 Регулярные"
BtnAddRecurring == "+ Dobavit regulyarnuyu"  \* "➕ Добавить регулярную"
BtnExport == "Eksport"                       \* "📤 Экспорт"
BtnSkip == "Propustit"                       \* "Пропустить"
BtnDay == "Den"                              \* "День"
BtnWeek == "Nedelya"                         \* "Неделя"
BtnMonth == "Mesyac"                         \* "Месяц"
BtnDaily == "Ezhednevno"                     \* "Ежедневно"
BtnWeekly == "Ezhenedelno"                   \* "Еженедельно"
BtnMonthly == "Ezhemesyachno"                \* "Ежемесячно"
BtnCSV == "CSV"
BtnTXT == "TXT"
CmdStart == "/start"

DEFAULT_INCOME_CATEGORIES == {"Zarplata", "Podarok", "Investicii", "Frilans"}
DEFAULT_EXPENSE_CATEGORIES ==
    {"Eda", "Transport", "Zhile", "Razvlecheniya", "Zdorove"}

\* float(text.replace(',', '.')) on the texts the model sends; a text outside
\* the domain raises ValueError.  "nan" parses: float("nan") is a float.
FloatTable ==
    ("10" :> Num(100)) @@ ("2,5" :> Num(25)) @@ ("0" :> Num(0))
    @@ ("-5" :> Num(-50)) @@ ("nan" :> NaN)
ParsesAsFloat(t) == t \in DOMAIN FloatTable
ParseFloat(t) == FloatTable[t]

\* datetime.strptime(text, '%Y-%m-%d') on the texts the model sends.
DateTable == ("2024-01-15" :> "2024-01-15") @@ ("2024-02-01" :> "2024-02-01")
ParsesAsDate(t) == t \in DOMAIN DateTable

\* ------------------------------------------------------------------ state
VARIABLES
    proc,             \* the bot process: stopped | connecting | running | failed
    pc,               \* where Database.connect is: [m, step]
    connects,         \* process starts so far
    ran,              \* migration bodies entered by the current connect()
    failure,          \* what made the current start fail: [at, cause]
    matTask,          \* the materializer task has been created
    today,            \* the calendar day (datetime.now().date())
    schema,           \* the store: table name -> its columns
    migrations,       \* the store: rows of _migrations, in insertion order
    transactions,     \* the store: the ledger, in insertion (id) order
    user_categories,  \* the store: rows <<user, name, kind>>
    budget_limits,    \* the store: rows of budget_limits
    recurring,        \* the store: rows of recurring_transactions
    state,            \* FSM state per user (MemoryStorage)
    data,             \* FSM data per user: a dict, key -> value
    ev,               \* the last operation that ran (history)
    conn,             \* the one aiosqlite connection: [open, pending]
    hpc,              \* per user: where the handler task is in a store write
    mat               \* the materializer loop: [pc, cycles, tasks]

storeVars ==
    <<schema, migrations, transactions, user_categories, budget_limits,
      recurring>>
procVars == <<proc, pc, connects, ran, failure, matTask>>
fsmVars == <<state, data>>
concVars == <<conn, hpc, mat>>
vars == <<procVars, today, storeVars, fsmVars, ev, concVars>>

\* ----------------------------------------------------------------- schema
MigrationNames ==
    <<"_migration_initial_schema", "_migration_add_description_column",
      "_migration_fix_budget_limits">>
NMigrations == Len(MigrationNames)

Range(s) == {s[i] : i \in DOMAIN s}
HasTable(t) == t \in DOMAIN schema
Cols(t) == IF HasTable(t) THEN schema[t] ELSE {}
\* CREATE TABLE IF NOT EXISTS t (cols)
CreateIfNotExists(sch, t, cols) ==
    IF t \in DOMAIN sch THEN sch ELSE (t :> cols) @@ sch

TransactionsCols ==
    {"id", "user_id", "type", "amount", "category", "date", "created_at"}
UserCategoriesCols == {"id", "user_id", "category_name", "transaction_type"}
BudgetLimitsCols ==
    {"id", "user_id", "category", "limit_amount", "transaction_type"}
BudgetLimitsNewCols == BudgetLimitsCols \cup {"period"}
RecurringCols ==
    {"id", "user_id", "type", "amount", "category", "frequency", "start_date",
     "last_processed", "is_active"}

\* The schema after all three migrations.
FullSchema ==
    [t \in {"_migrations", "transactions", "user_categories", "budget_limits",
            "recurring_transactions"} |->
        CASE t = "_migrations" -> {"id", "name", "applied_at"}
          [] t = "transactions" -> TransactionsCols \cup {"description"}
          [] t = "user_categories" -> UserCategoriesCols
          [] t = "budget_limits" -> BudgetLimitsNewCols
          [] t = "recurring_transactions" -> RecurringCols]

NoPc == [m |-> 0, step |-> "none"]
NoFailure == [at |-> 0, cause |-> "none"]
EmptyDraft == [k \in {} |-> NoneVal]
\* The last operation: its name, the user and text of the message, the FSM
\* state the user was in when it ran, the store writes it attempted, and
\* whether the write succeeded.
NoEv ==
    [h |-> "none", user |-> 0, text |-> "", from |-> NoneVal, calls |-> 0,
     ok |-> TRUE]
Ev(h, u, t, calls, ok) ==
    [h |-> h, user |-> u, text |-> t,
     from |-> IF u \in Users THEN state[u] ELSE NoneVal,
     calls |-> calls, ok |-> ok]

\* The connection: closed, or open with the writes executed on it and not
\* yet committed (SQLite keeps one open transaction per connection).
ClosedConn == [open |-> FALSE, pending |-> <<>>]
OpenConn == [open |-> TRUE, pending |-> <<>>]
\* No handler task is inside a store write.
NoHandlerTasks == [u \in Users |-> "idle"]
\* The materializer loop: no task; or a task at the head of `while True`
\* ("top") or in its sleep; cycles in progress; tasks created by on_startup.
NoMat == [pc |-> "none", cycles |-> 0, tasks |-> 0]

\* A new process: bot, dispatcher and MemoryStorage are module-level objects,
\* the store file is empty until connect() runs.
Init ==
    /\ proc = "stopped"
    /\ pc = NoPc
    /\ connects = 0
    /\ ran = {}
    /\ failure = NoFailure
    /\ matTask = FALSE
    /\ today = 0
    /\ schema = [t \in {} |-> {}]
    /\ migrations = <<>>
    /\ transactions = <<>>
    /\ user_categories = {}
    /\ budget_limits = {}
    /\ recurring = <<>>
    /\ state = [u \in Users |-> NoneVal]
    /\ data = [u \in Users |-> EmptyDraft]
    /\ ev = NoEv
    /\ conn = ClosedConn
    /\ hpc = NoHandlerTasks
    /\ mat = NoMat

\* ------------------------------------------------- process and migrations
\* asyncio.run(main()): start_polling runs on_startup, which awaits connect().
\* The FSM storage of a new process is empty.
StartProcess ==
    /\ proc \in {"stopped", "failed"}
    /\ connects < MaxConnects
    /\ proc' = "connecting"
    /\ connects' = connects + 1
    /\ pc' = [m |-> 0, step |-> "create_migrations_table"]
    /\ ran' = {}
    /\ failure' = NoFailure
    /\ matTask' = FALSE
    /\ state' = [u \in Users |-> NoneVal]
    /\ data' = [u \in Users |-> EmptyDraft]
    /\ ev' = Ev("connect", 0, "", 0, TRUE)
    /\ conn' = OpenConn
    /\ hpc' = NoHandlerTasks
    /\ mat' = NoMat
    /\ UNCHANGED <<today, storeVars>>

\* The loop `for migration in migrations` moves on to migration m + 1, or
\* _run_migrations and connect() return and on_startup creates the
\* materializer task.
AfterMigration(m) ==
    IF m < NMigrations
    THEN /\ pc' = [m |-> m + 1, step |-> "check"]
         /\ UNCHANGED <<proc, matTask, mat>>
    ELSE /\ pc' = NoPc
         /\ proc' = "running"
         /\ matTask' = TRUE
         /\ mat' = [pc |-> "top", cycles |-> 0, tasks |-> mat.tasks + 1]

\* An exception inside `try: await migration(); await _mark...` is logged and
\* re-raised: connect() and on_startup raise, start_polling never polls, main()
\* logs and returns.  The connection is dropped with its open transaction.
MigrationRaisesSwallowed(m, cause) ==
    /\ AfterMigration(m)
    /\ failure' = [at |-> m, cause |-> cause]
    /\ UNCHANGED conn
MigrationRaises(m, cause) ==
    /\ proc' = "failed"
    /\ pc' = NoPc
    /\ failure' = [at |-> m, cause |-> cause]
    /\ conn' = ClosedConn
    /\ UNCHANGED <<matTask, mat>>

_create_migrations_table ==
    /\ proc = "connecting"
    /\ pc.step = "create_migrations_table"
    /\ schema' = CreateIfNotExists(schema, "_migrations",
                                   {"id", "name", "applied_at"})
    /\ pc' = [m |-> 1, step |-> "check"]
    /\ ev' = Ev("_create_migrations_table", 0, "", 1, TRUE)
    /\ UNCHANGED <<proc, connects, ran, failure, matTask, today, migrations,
                   transactions, user_categories, budget_limits, recurring,
                   fsmVars>>
    /\ UNCHANGED concVars

\* SELECT 1 FROM _migrations WHERE name = ?; fetchone() is not None.
IsAppliedNever(name) == FALSE
IsApplied(name) == name \in Range(migrations)

_is_migration_applied ==
    /\ proc = "connecting"
    /\ pc.step = "check"
    /\ IF IsApplied(MigrationNames[pc.m])
       THEN /\ AfterMigration(pc.m)
            /\ ran' = ran
       ELSE /\ pc' = [m |-> pc.m, step |-> "s1"]
            /\ ran' = ran \cup {pc.m}
            /\ UNCHANGED <<proc, matTask, mat>>
    /\ ev' = Ev("_is_migration_applied", 0, "", 0, TRUE)
    /\ UNCHANGED <<connects, failure, today, storeVars, fsmVars>>
    /\ UNCHANGED <<conn, hpc>>

\* CREATE TABLE IF NOT EXISTS x 4, CREATE INDEX IF NOT EXISTS, commit.  DDL
\* outside a transaction is durable as each statement returns.
_migration_initial_schema ==
    /\ proc = "connecting"
    /\ pc.m = 1
    /\ pc.step \in {"s1", "s2", "s3", "s4", "s5"}
    /\ schema' =
         CASE pc.step = "s1" ->
                CreateIfNotExists(schema, "transactions", TransactionsCols)
           [] pc.step = "s2" ->
                CreateIfNotExists(schema, "user_categories", UserCategoriesCols)
           [] pc.step = "s3" ->
                CreateIfNotExists(schema, "budget_limits", BudgetLimitsCols)
           [] pc.step = "s4" ->
                CreateIfNotExists(schema, "recurring_transactions",
                                  RecurringCols)
           [] pc.step = "s5" -> schema
    /\ pc' = [m |-> 1,
              step |-> CASE pc.step = "s1" -> "s2" [] pc.step = "s2" -> "s3"
                         [] pc.step = "s3" -> "s4" [] pc.step = "s4" -> "s5"
                         [] pc.step = "s5" -> "mark"]
    /\ ev' = Ev("_migration_initial_schema", 0, "", 1, TRUE)
    /\ UNCHANGED <<proc, connects, ran, failure, matTask, today, migrations,
                   transactions, user_categories, budget_limits, recurring,
                   fsmVars>>
    /\ UNCHANGED concVars

\* ALTER TABLE transactions ADD COLUMN description; commit.  SQLite refuses
\* a column the table already has ("duplicate column name").
_migration_add_description_column ==
    /\ proc = "connecting"
    /\ pc.m = 2
    /\ pc.step = "s1"
    /\ IF HasTable("transactions") /\ "description" \notin Cols("transactions")
       THEN /\ schema' = [schema EXCEPT !["transactions"] = @ \cup {"description"}]
            /\ pc' = [m |-> 2, step |-> "mark"]
            /\ ev' = Ev("_migration_add_description_column", 0, "", 1, TRUE)
            /\ UNCHANGED <<proc, failure, matTask, conn, mat>>
       ELSE /\ MigrationRaises(2, "duplicate column name: description")
            /\ ev' = Ev("_migration_add_description_column", 0, "", 1, FALSE)
            /\ UNCHANGED schema
    /\ UNCHANGED <<connects, ran, today, migrations, transactions,
                   user_categories, budget_limits, recurring, fsmVars>>
    /\ UNCHANGED hpc

\* The key of UNIQUE(user_id, category, transaction_type, period).
LimitKey(r) == <<r.user, r.category, r.kind, r.period>>

\* SELECT id, user_id, category, limit_amount, transaction_type, 'month': the
\* row with its columns as they are and the period 'month'.
WithPeriodMonth(r) ==
    [f \in (DOMAIN r) \cup {"period"} |-> IF f = "period" THEN "month" ELSE r[f]]

\* s1: CREATE TABLE IF NOT EXISTS budget_limits_new (durable at once).
\* s2: INSERT INTO budget_limits_new SELECT ..., 'month' FROM budget_limits;
\*     DROP TABLE budget_limits; ALTER TABLE ... RENAME; commit -- one
\*     transaction, opened by the INSERT: all of it is durable or none.
_migration_fix_budget_limits ==
    /\ proc = "connecting"
    /\ pc.m = 3
    /\ pc.step \in {"s1", "s2"}
    /\ IF pc.step = "s1"
       THEN /\ schema' = CreateIfNotExists(schema, "budget_limits_new",
                                           BudgetLimitsNewCols)
            /\ pc' = [m |-> 3, step |-> "s2"]
            /\ ev' = Ev("_migration_fix_budget_limits", 0, "", 1, TRUE)
            /\ UNCHANGED <<proc, failure, matTask, budget_limits, conn, mat>>
       ELSE LET copied == {WithPeriodMonth(r) : r \in budget_limits}
                unique == \A a, b \in copied : LimitKey(a) = LimitKey(b) => a = b
            IN  IF HasTable("budget_limits") /\ unique
                THEN /\ schema' =
                          [t \in (DOMAIN schema) \ {"budget_limits_new"} |->
                              IF t = "budget_limits"
                              THEN schema["budget_limits_new"] ELSE schema[t]]
                     /\ budget_limits' = copied
                     /\ pc' = [m |-> 3, step |-> "mark"]
                     /\ ev' = Ev("_migration_fix_budget_limits", 0, "", 1, TRUE)
                     /\ UNCHANGED <<proc, failure, matTask, conn, mat>>
                ELSE /\ MigrationRaises(3, "constraint failed")
                     /\ ev' = Ev("_migration_fix_budget_limits", 0, "", 1, FALSE)
                     /\ UNCHANGED <<schema, budget_limits>>
    /\ UNCHANGED <<connects, ran, today, migrations, transactions,
                   user_categories, recurring, fsmVars>>
    /\ UNCHANGED hpc

\* INSERT INTO _migrations (name) VALUES (?); commit.  name is UNIQUE.
_mark_migration_applied ==
    /\ proc = "connecting"
    /\ pc.step = "mark"
    /\ IF MigrationNames[pc.m] \notin Range(migrations)
       THEN /\ migrations' = Append(migrations, MigrationNames[pc.m])
            /\ AfterMigration(pc.m)
            /\ ev' = Ev("_mark_migration_applied", 0, "", 1, TRUE)
            /\ UNCHANGED <<failure, conn>>
       ELSE /\ MigrationRaises(pc.m, "UNIQUE constraint failed")
            /\ ev' = Ev("_mark_migration_applied", 0, "", 1, FALSE)
            /\ UNCHANGED migrations
    /\ UNCHANGED <<connects, ran, today, schema, transactions, user_categories,
                   budget_limits, recurring, fsmVars>>
    /\ UNCHANGED hpc

\* A storage error (I/O, locked file) inside a migration body or inside
\* _mark_migration_applied: the statement has no effect and raises.
MigrationStorageError ==
    /\ proc = "connecting"
    /\ pc.m >= 1
    /\ pc.step # "check"
    /\ MigrationRaises(pc.m, "storage error")
    /\ ev' = Ev("storage_error", 0, "", 1, FALSE)
    /\ UNCHANGED <<connects, ran, today, storeVars, fsmVars>>
    /\ UNCHANGED hpc

\* The process is killed (or the host stops) at any point: what was committed
\* stays, memory is lost.
Kill ==
    /\ proc \in {"connecting", "running"}
    /\ proc' = "stopped"
    /\ pc' = NoPc
    /\ matTask' = FALSE
    /\ state' = [u \in Users |-> NoneVal]
    /\ data' = [u \in Users |-> EmptyDraft]
    /\ ev' = Ev("kill", 0, "", 0, TRUE)
    /\ conn' = ClosedConn
    /\ hpc' = NoHandlerTasks
    /\ mat' = NoMat
    /\ UNCHANGED <<connects, ran, failure, today, storeVars>>

\* The calendar day advances.
Tick ==
    /\ today < MaxDay
    /\ today' = today + 1
    /\ ev' = Ev("tick", 0, "", 0, TRUE)
    /\ UNCHANGED <<procVars, storeVars, fsmVars>>
    /\ UNCHANGED concVars

\* ----------------------------------------------------------- ledger store
\* What the INSERT of add_transaction needs to succeed: the column list names
\* description; type has CHECK(type IN ('income', 'expense')); amount and
\* category are NOT NULL, and SQLite binds a NaN double as NULL.
TxInsertOKNoConstraints(kind, amount, category) ==
    /\ HasTable("transactions")
    /\ "description" \in Cols("transactions")
TxInsertOK(kind, amount, category) ==
    /\ HasTable("transactions")
    /\ "description" \in Cols("transactions")
    /\ kind \in Kinds
    /\ ~amount.nan
    /\ category # NoneVal

\* (TxRowNoDescription: an INSERT that leaves the description column NULL.)
TxRowNoDescription(u, kind, amount, category, description) ==
    [user |-> u, kind |-> kind, amount |-> amount, category |-> category,
     date |-> today, description |-> NoneVal]
TxRow(u, kind, amount, category, description) ==
    [user |-> u, kind |-> kind, amount |-> amount, category |-> category,
     date |-> today, description |-> description]

\* Database.add_transaction: the ledger after the call; the call returns True
\* iff AddTransactionOK.  `fault` is a storage error raised by execute/commit.
\* (add_transaction_rewrites: a store that keeps only the newest row.)
AddTransactionOK(kind, amount, category, fault) ==
    ~fault /\ TxInsertOK(kind, amount, category)
add_transaction_rewrites(u, kind, amount, category, description, fault) ==
    IF AddTransactionOK(kind, amount, category, fault)
    THEN <<TxRow(u, kind, amount, category, description)>>
    ELSE transactions
add_transaction(u, kind, amount, category, description, fault) ==
    IF AddTransactionOK(kind, amount, category, fault)
    THEN Append(transactions, TxRow(u, kind, amount, category, description))
    ELSE transactions

\* Database.get_transactions.  A date argument left out is None.
NoDate == -1
DefaultLimit == 100
\* (TxMatchesAnyUser: the WHERE clause without user_id = ?.)
TxMatchesAnyUser(i, u, start, end) ==
    IF start # NoDate /\ end # NoDate
      THEN start <= transactions[i].date /\ transactions[i].date <= end
    ELSE IF start # NoDate THEN transactions[i].date >= start
    ELSE IF end # NoDate THEN transactions[i].date <= end
    ELSE TRUE
\* The WHERE clause: user_id = ?, then the if/elif chain on the two dates.
TxMatches(i, u, start, end) ==
    /\ transactions[i].user = u
    /\ IF start # NoDate /\ end # NoDate
         THEN start <= transactions[i].date /\ transactions[i].date <= end
       ELSE IF start # NoDate THEN transactions[i].date >= start
       ELSE IF end # NoDate THEN transactions[i].date <= end
       ELSE TRUE
\* ORDER BY date DESC, served by a backward scan of
\* idx_transactions_user_date: of two rows of one date the one with the
\* larger rowid comes first.  Row i of the ledger has rowid i.
\* (TxBeforeOldestFirst: the same index scanned forward.)
TxBeforeOldestFirst(i, j) ==
    \/ transactions[i].date < transactions[j].date
    \/ transactions[i].date = transactions[j].date /\ i < j
TxBefore(i, j) ==
    \/ transactions[i].date > transactions[j].date
    \/ transactions[i].date = transactions[j].date /\ i > j
\* The rowids of the rows the query returns, in the order it returns them;
\* [] when the query raises.
get_transactions_rowids(u, start, end, limit) ==
    IF ~(HasTable("transactions") /\ "description" \in Cols("transactions"))
    THEN <<>>
    ELSE LET S == {i \in DOMAIN transactions : TxMatches(i, u, start, end)}
             n == Cardinality(S)
             Rank(i) == Cardinality({j \in S : TxBefore(j, i)}) + 1
             sorted == [k \in 1..n |-> CHOOSE i \in S : Rank(i) = k]
         IN  SubSeq(sorted, 1, IF limit < n THEN limit ELSE n)
\* SELECT type, amount, category, date, description
get_transactions(u, start, end, limit) ==
    LET ids == get_transactions_rowids(u, start, end, limit)
    IN  [k \in DOMAIN ids |->
           <<transactions[ids[k]].kind, transactions[ids[k]].amount,
             transactions[ids[k]].category, transactions[ids[k]].date,
             transactions[ids[k]].description>>]

\* Dates are day numbers; a month of the model's calendar has 30 days and a
\* year 12 months.
DaysPerMonth == 30
MonthOf(d) == (d \div DaysPerMonth) % 12
YearOf(d) == d \div (12 * DaysPerMonth)

\* SUM(amount) over the rows S of the ledger (rowids); NULL, read as 0, when
\* there is none.  Amounts are in tenths.
RECURSIVE SumAmounts(_)
SumAmounts(S) ==
    IF S = {} THEN 0
    ELSE LET i == CHOOSE x \in S : TRUE
         IN  transactions[i].amount.val + SumAmounts(S \ {i})
\* WHERE user_id = ? AND type = ?
\* (RowsOfKindAnyUser: the WHERE clause without user_id.)
RowsOfKindAnyUser(u, kind) ==
    {i \in DOMAIN transactions : transactions[i].kind = kind}
RowsOfKind(u, kind) ==
    {i \in DOMAIN transactions :
        transactions[i].user = u /\ transactions[i].kind = kind}
\* Database.get_balance of main.py: (total_income, total_expense).
get_balance(u) ==
    <<SumAmounts(RowsOfKind(u, "income")), SumAmounts(RowsOfKind(u, "expense"))>>
\* get_current_balance: one SELECT of the difference of the two sums; 0 when
\* the query raises.
get_current_balance(u) ==
    IF HasTable("transactions")
    THEN SumAmounts(RowsOfKind(u, "income"))
           - SumAmounts(RowsOfKind(u, "expense"))
    ELSE 0

\* GROUP BY category ORDER BY total DESC over the rows S: one (category,
\* total) per category, larger totals first.  SQL leaves the order of equal
\* totals open: `first` says whether the category met first in the table comes
\* first among them.
GroupByTotalDesc(S, first) ==
    LET cats == {transactions[i].category : i \in S}
        n == Cardinality(cats)
        Of(c) == {i \in S : transactions[i].category = c}
        Min(c) == CHOOSE i \in Of(c) : \A j \in Of(c) : i <= j
        Before(a, b) ==
            \/ SumAmounts(Of(a)) > SumAmounts(Of(b))
            \/ /\ SumAmounts(Of(a)) = SumAmounts(Of(b))
               /\ IF first THEN Min(a) < Min(b) ELSE Min(a) > Min(b)
        Rank(c) == Cardinality({b \in cats : Before(b, c)}) + 1
    IN  [k \in 1..n |->
           LET c == CHOOSE x \in cats : Rank(x) = k
           IN  <<c, SumAmounts(Of(c))>>]
\* today.replace(day=1)
MonthStart(d) == d - (d % DaysPerMonth)
StatsLimit == 10
\* The two queries of statistics_handler: the user's rows of one kind dated
\* from the first day of the month to today, grouped, LIMIT 10.
StatsRows(u, kind) ==
    {i \in RowsOfKind(u, kind) :
        /\ MonthStart(today) <= transactions[i].date
        /\ transactions[i].date <= today}
statistics_query(u, kind, first) ==
    LET all == GroupByTotalDesc(StatsRows(u, kind), first)
    IN  SubSeq(all, 1, IF Len(all) > StatsLimit THEN StatsLimit ELSE Len(all))
\* Database.get_monthly_stats of main.py: the user's expenses whose
\* strftime('%Y-%m', date) is the current month, grouped; no LIMIT.
get_monthly_stats(u, first) ==
    GroupByTotalDesc({i \in RowsOfKind(u, "expense") :
                        /\ YearOf(transactions[i].date) = YearOf(today)
                        /\ MonthOf(transactions[i].date) = MonthOf(today)},
                     first)

\* strftime('%Y-%W', d): the year and the week of the year, weeks beginning
\* on Monday; day 0 of the model's calendar is a Monday.
WeekOf(d) ==
    <<YearOf(d), ((d % (12 * DaysPerMonth)) + 7 - (d % 7)) \div 7>>
\* Database.get_category_spending.  SQLite's 'now' is the date in UTC, utc,
\* which is the day before, the day of, or the day after the local date that
\* datetime.now() gives add_transaction.
DateCondition(period, d, utc) ==
    CASE period = "day" -> d = utc
      [] period = "week" -> WeekOf(d) = WeekOf(utc)
      [] period = "month" ->
           YearOf(d) = YearOf(utc) /\ MonthOf(d) = MonthOf(utc)
      [] OTHER -> TRUE
get_category_spending(u, category, kind, period, utc) ==
    IF HasTable("transactions")
    THEN SumAmounts({i \in RowsOfKind(u, kind) :
                       /\ transactions[i].category = category
                       /\ DateCondition(period, transactions[i].date, utc)})
    ELSE 0

\* Database.get_user_categories: the names, [] when the query raises.
get_user_categories(u, kind) ==
    IF HasTable("user_categories")
    THEN {c[2] : c \in {x \in user_categories : x[1] = u /\ x[3] = kind}}
    ELSE {}

\* Database.add_user_category: UNIQUE(user_id, category_name, transaction_type)
\* (AddUserCategoryOKNoUnique: the table without its UNIQUE constraint.)
AddUserCategoryOKNoUnique(u, name, kind, fault) ==
    /\ ~fault
    /\ HasTable("user_categories")
    /\ kind \in Kinds
    /\ name # NoneVal
AddUserCategoryOK(u, name, kind, fault) ==
    /\ ~fault
    /\ HasTable("user_categories")
    /\ kind \in Kinds
    /\ name # NoneVal
    /\ <<u, name, kind>> \notin user_categories
add_user_category(u, name, kind, fault) ==
    IF AddUserCategoryOK(u, name, kind, fault)
    THEN user_categories \cup {<<u, name, kind>>}
    ELSE user_categories

\* Database.delete_user_category: True iff a row was deleted.
\* (DeleteUserCategoryOKAnyCount: `return True` in place of rowcount > 0.)
DeleteUserCategoryOKAnyCount(u, name, kind, fault) ==
    ~fault /\ HasTable("user_categories")
DeleteUserCategoryOK(u, name, kind, fault) ==
    ~fault /\ HasTable("user_categories") /\ <<u, name, kind>> \in user_categories
delete_user_category(u, name, kind, fault) ==
    IF DeleteUserCategoryOK(u, name, kind, fault)
    THEN user_categories \ {<<u, name, kind>>}
    ELSE user_categories

\* Database.add_budget_limit: INSERT OR REPLACE on the UNIQUE key; a NULL
\* limit_amount (a NaN) has no default to fall back on and aborts.
\* (AddBudgetLimitOKNoChecks: a table without NOT NULL and CHECK.)
AddBudgetLimitOKNoChecks(kind, amount, category, period, fault) ==
    /\ ~fault
    /\ HasTable("budget_limits")
    /\ "period" \in Cols("budget_limits")
AddBudgetLimitOK(kind, amount, category, period, fault) ==
    /\ ~fault
    /\ HasTable("budget_limits")
    /\ "period" \in Cols("budget_limits")
    /\ kind \in Kinds
    /\ period \in {"day", "week", "month"}
    /\ ~amount.nan
    /\ category # NoneVal
\* (add_budget_limit_inserts: INSERT without OR REPLACE on a table without
\* the UNIQUE key.)
add_budget_limit_inserts(u, category, amount, kind, period, fault) ==
    IF AddBudgetLimitOK(kind, amount, category, period, fault)
    THEN budget_limits \cup {[user |-> u, category |-> category, kind |-> kind,
                              period |-> period, amount |-> amount]}
    ELSE budget_limits
add_budget_limit(u, category, amount, kind, period, fault) ==
    IF AddBudgetLimitOK(kind, amount, category, period, fault)
    THEN LET row == [user |-> u, category |-> category, kind |-> kind,
                     period |-> period, amount |-> amount]
         IN  {r \in budget_limits : LimitKey(r) # LimitKey(row)} \cup {row}
    ELSE budget_limits

\* Database.add_recurring_transaction: the INSERT names the column
\* description of recurring_transactions.
AddRecurringOK(kind, amount, category, frequency, fault) ==
    /\ ~fault
    /\ HasTable("recurring_transactions")
    /\ "description" \in Cols("recurring_transactions")
    /\ kind \in Kinds
    /\ frequency \in {"daily", "weekly", "monthly"}
    /\ ~amount.nan
    /\ category # NoneVal
add_recurring_transaction(u, kind, amount, category, frequency, desc, fault) ==
    IF AddRecurringOK(kind, amount, category, frequency, fault)
    THEN Append(recurring,
                [user |-> u, kind |-> kind, amount |-> amount,
                 category |-> category, description |-> desc,
                 frequency |-> frequency, start_date |-> today,
                 last_processed |-> -1, is_active |-> TRUE])
    ELSE recurring

\* Database.get_recurring_transactions(): the ids of the active templates;
\* the SELECT names the column description, and [] is returned when it raises.
get_recurring_transactions ==
    IF HasTable("recurring_transactions")
       /\ "description" \in Cols("recurring_transactions")
    THEN {i \in DOMAIN recurring : recurring[i].is_active}
    ELSE {}

\* Database.get_recurring_transactions(user_id): `if user_id:` takes the
\* branch with WHERE user_id = ? for every identifier but 0 (and None), which
\* takes the SELECT of every user's active templates; either SELECT names the
\* column description, and [] is returned when it raises.
get_recurring_transactions_of(user_id) ==
    IF HasTable("recurring_transactions")
       /\ "description" \in Cols("recurring_transactions")
    THEN IF user_id # 0
         THEN {i \in DOMAIN recurring :
                 recurring[i].user = user_id /\ recurring[i].is_active}
         ELSE {i \in DOMAIN recurring : recurring[i].is_active}
    ELSE {}

\* Database.get_budget_limits: the user's rows, [] when the query raises.
get_budget_limits(u) ==
    IF HasTable("budget_limits") /\ "period" \in Cols("budget_limits")
    THEN {<<r.category, r.amount, r.kind, r.period>> :
            r \in {x \in budget_limits : x.user = u}}
    ELSE {}

\* ------------------------------------------------------ FSM and dispatch
Running == proc = "running"
\* FSMContext.update_data(k=v)
Upd(d, k, v) == (k :> v) @@ d
\* One state and draft slot for the whole bot instead of one per user.
SetFsmShared(u, s, d) ==
    /\ state' = [v \in Users |-> s]
    /\ data' = [v \in Users |-> d]
SetFsm(u, s, d) ==
    /\ state' = [state EXCEPT ![u] = s]
    /\ data' = [data EXCEPT ![u] = d]
\* FSMContext.clear(): the state becomes None and the data {}.
ClearKeepsData(u) == SetFsm(u, NoneVal, data[u])
Clear(u) == SetFsm(u, NoneVal, EmptyDraft)

CancelTexts == {BtnBack, BtnCancel, BtnBackAlt}

\* The dispatcher offers a message to the handlers in the order they were
\* registered (the order of the decorators in the file) and runs the first
\* whose filters pass.  A handler registered with a Form state passes only in
\* that state; one registered with a text filter alone passes in every state.
HandlerFor(s, t) ==
    IF t = CmdStart THEN "cmd_start"
    ELSE IF t \in CancelTexts THEN "cancel_handler"
    ELSE IF t = BtnBackSettings THEN "back_to_settings"
    ELSE IF t \in {BtnIncome, BtnExpense} THEN "transaction_type_handler"
    ELSE IF s = "transaction_amount" THEN "transaction_amount_handler"
    ELSE IF s = "transaction_category" THEN "transaction_category_handler"
    ELSE IF s = "transaction_description" THEN "transaction_description_handler"
    ELSE IF t = BtnBalance THEN "balance_handler"
    ELSE IF t = BtnStatistics THEN "statistics_handler"
    ELSE IF t = BtnHistory THEN "history_handler"
    ELSE IF t = BtnSettings THEN "settings_handler"
    ELSE IF t = BtnCategories THEN "categories_menu_handler"
    ELSE IF t = BtnAddCategory THEN "add_category_start"
    ELSE IF s = "category_type" /\ t \in {BtnIncomes, BtnExpenses}
         THEN "add_category_type"
    ELSE IF s = "category_name" THEN "add_category_name"
    ELSE IF t = BtnDeleteCategory THEN "delete_category_start"
    ELSE IF s = "category_type" /\ t \in {BtnIncomes, BtnExpenses}
         THEN "delete_category_type"
    ELSE IF s = "delete_category" THEN "delete_category_confirm"
    ELSE IF t = BtnLimits THEN "limits_menu_handler"
    ELSE IF t = BtnSetLimit THEN "set_limit_start"
    ELSE IF s = "limit_category_type" /\ t \in {BtnLimitIncome, BtnLimitExpense}
         THEN "set_limit_type"
    ELSE IF s = "limit_category" THEN "set_limit_category"
    ELSE IF s = "limit_period" THEN "set_limit_period"
    ELSE IF s = "limit_amount" THEN "set_limit_amount"
    ELSE IF t = BtnRecurring THEN "recurring_menu_handler"
    ELSE IF t = BtnAddRecurring THEN "add_recurring_start"
    ELSE IF s = "recurring_type" /\ t \in {BtnIncome, BtnExpense}
         THEN "add_recurring_type"
    ELSE IF s = "recurring_amount" THEN "add_recurring_amount"
    ELSE IF s = "recurring_category" THEN "add_recurring_category"
    ELSE IF s = "recurring_description" THEN "add_recurring_description"
    ELSE IF s = "recurring_frequency" THEN "add_recurring_frequency"
    ELSE IF t = BtnExport THEN "export_start"
    ELSE IF s = "export_start_date" THEN "export_end_date"
    ELSE IF s = "export_end_date" THEN "export_format"
    ELSE IF s = "export_format" /\ t \in {BtnCSV, BtnTXT} THEN "export_data"
    ELSE "unhandled"

\* Handler h runs for user u's message t.
Runs(h, u, t) == Running /\ HandlerFor(state[u], t) = h

DefaultCategories(kind) ==
    IF kind = "income" THEN DEFAULT_INCOME_CATEGORIES
    ELSE DEFAULT_EXPENSE_CATEGORIES
\* The categories a keyboard offers: the user's own plus the defaults.
OfferedCategories(u, kind) ==
    get_user_categories(u, kind) \cup DefaultCategories(kind)

\* ----------------------------------------------------- transaction entry
cancel_handler(u, t) ==
    /\ Runs("cancel_handler", u, t)
    /\ IF state[u] # NoneVal THEN Clear(u) ELSE UNCHANGED fsmVars
    /\ ev' = Ev("cancel_handler", u, t, 0, TRUE)
    /\ UNCHANGED <<procVars, today, storeVars>>
    /\ UNCHANGED concVars

back_to_settings(u, t) ==
    /\ Runs("back_to_settings", u, t)
    /\ Clear(u)
    /\ ev' = Ev("back_to_settings", u, t, 0, TRUE)
    /\ UNCHANGED <<procVars, today, storeVars>>
    /\ UNCHANGED concVars

transaction_type_handler(u, t) ==
    /\ Runs("transaction_type_handler", u, t)
    /\ SetFsm(u, "transaction_amount",
              Upd(data[u], "transaction_type",
                  IF t = BtnIncome THEN "income" ELSE "expense"))
    /\ ev' = Ev("transaction_type_handler", u, t, 0, TRUE)
    /\ UNCHANGED <<procVars, today, storeVars>>
    /\ UNCHANGED concVars

\* float() raising ValueError, or amount <= 0, answers and returns.
AmountAccepted(t) == ParsesAsFloat(t) /\ ~FloatLE0(ParseFloat(t))

\* An amount handler that asks for the description at once.
transaction_amount_handler_skips(u, t) ==
    /\ Runs("transaction_amount_handler", u, t)
    /\ IF AmountAccepted(t)
       THEN SetFsm(u, "transaction_description",
                   Upd(Upd(data[u], "transaction_amount", ParseFloat(t)),
                       "transaction_category", t))
       ELSE UNCHANGED fsmVars
    /\ ev' = Ev("transaction_amount_handler", u, t, 0, TRUE)
    /\ UNCHANGED <<procVars, today, storeVars>>
    /\ UNCHANGED concVars

transaction_amount_handler(u, t) ==
    /\ Runs("transaction_amount_handler", u, t)
    /\ IF AmountAccepted(t)
       THEN LET d == Upd(data[u], "transaction_amount", ParseFloat(t))
            IN  IF OfferedCategories(u, d["transaction_type"]) = {}
                THEN Clear(u)
                ELSE SetFsm(u, "transaction_category", d)
       ELSE UNCHANGED fsmVars
    /\ ev' = Ev("transaction_amount_handler", u, t, 0, TRUE)
    /\ UNCHANGED <<procVars, today, storeVars>>
    /\ UNCHANGED concVars

transaction_category_handler(u, t) ==
    /\ Runs("transaction_category_handler", u, t)
    /\ SetFsm(u, "transaction_description",
              Upd(data[u], "transaction_category", t))
    /\ ev' = Ev("transaction_category_handler", u, t, 0, TRUE)
    /\ UNCHANGED <<procVars, today, storeVars>>
    /\ UNCHANGED concVars

\* A handler that would clear only after a successful insert.
DescriptionCommitKeepsDraftOnFailure(u, t, fault) ==
    LET d == data[u]
        description == IF t = BtnSkip THEN NoneVal ELSE t
        ok == AddTransactionOK(d["transaction_type"], d["transaction_amount"],
                               d["transaction_category"], fault)
    IN  /\ ok => Len(transactions) < MaxTx
        /\ transactions' =
             add_transaction(u, d["transaction_type"], d["transaction_amount"],
                             d["transaction_category"], description, fault)
        /\ IF ok THEN Clear(u) ELSE UNCHANGED fsmVars
        /\ ev' = Ev("transaction_description_handler", u, t, 1, ok)

\* One add_transaction call, an answer either way, then state.clear().
DescriptionCommit(u, t, fault) ==
    LET d == data[u]
        description == IF t = BtnSkip THEN NoneVal ELSE t
        ok == AddTransactionOK(d["transaction_type"], d["transaction_amount"],
                               d["transaction_category"], fault)
    IN  /\ ok => Len(transactions) < MaxTx
        /\ transactions' =
             add_transaction(u, d["transaction_type"], d["transaction_amount"],
                             d["transaction_category"], description, fault)
        /\ Clear(u)
        /\ ev' = Ev("transaction_description_handler", u, t, 1, ok)
transaction_description_handler(u, t) ==
    /\ Runs("transaction_description_handler", u, t)
    /\ \E fault \in BOOLEAN : DescriptionCommit(u, t, fault)
    /\ UNCHANGED <<procVars, today, schema, migrations, user_categories,
                   budget_limits, recurring>>
    /\ UNCHANGED concVars

\* ------------------------------------------------------------ read-only
\* cmd_start, balance_handler, statistics_handler, history_handler,
\* settings_handler, categories_menu_handler, limits_menu_handler and
\* recurring_menu_handler answer and change neither the FSM nor the store.
ReadOnlyHandlers ==
    {"cmd_start", "balance_handler", "statistics_handler", "history_handler",
     "settings_handler", "categories_menu_handler", "limits_menu_handler",
     "recurring_menu_handler"}
read_only_handler(u, t) ==
    /\ Running
    /\ HandlerFor(state[u], t) \in ReadOnlyHandlers
    /\ ev' = Ev(HandlerFor(state[u], t), u, t, 0, TRUE)
    /\ UNCHANGED <<procVars, today, storeVars, fsmVars>>
    /\ UNCHANGED concVars

\* No handler's filters pass: the update is dropped.
unhandled(u, t) ==
    /\ Runs("unhandled", u, t)
    /\ ev' = Ev("unhandled", u, t, 0, TRUE)
    /\ UNCHANGED <<procVars, today, storeVars, fsmVars>>
    /\ UNCHANGED concVars

\* ------------------------------------------------------- category flows
add_category_start(u, t) ==
    /\ Runs("add_category_start", u, t)
    /\ SetFsm(u, "category_type", data[u])
    /\ ev' = Ev("add_category_start", u, t, 0, TRUE)
    /\ UNCHANGED <<procVars, today, storeVars>>
    /\ UNCHANGED concVars

add_category_type(u, t) ==
    /\ Runs("add_category_type", u, t)
    /\ SetFsm(u, "category_name",
              Upd(data[u], "category_type",
                  IF t = BtnIncomes THEN "income" ELSE "expense"))
    /\ ev' = Ev("add_category_type", u, t, 0, TRUE)
    /\ UNCHANGED <<procVars, today, storeVars>>
    /\ UNCHANGED concVars

\* str.strip() on the texts the model sends: only these two have outer blanks.
StripTable == ("  " :> "") @@ (" Kofe " :> "Kofe")
Strip(t) == IF t \in DOMAIN StripTable THEN StripTable[t] ELSE t
MaxCategoryNameLen == 30

add_category_name(u, t) ==
    /\ Runs("add_category_name", u, t)
    /\ LET category_name == Strip(t)
       IN  IF category_name = "" \/ Len(category_name) > MaxCategoryNameLen
           THEN /\ ev' = Ev("add_category_name", u, t, 0, FALSE)
                /\ UNCHANGED <<fsmVars, user_categories>>
           ELSE \E fault \in BOOLEAN :
                  /\ user_categories' =
                       add_user_category(u, category_name,
                                         data[u]["category_type"], fault)
                  /\ Clear(u)
                  /\ ev' = Ev("add_category_name", u, t, 1,
                              AddUserCategoryOK(u, category_name,
                                                data[u]["category_type"], fault))
    /\ UNCHANGED <<procVars, today, schema, migrations, transactions,
                   budget_limits, recurring>>
    /\ UNCHANGED concVars

delete_category_start(u, t) ==
    /\ Runs("delete_category_start", u, t)
    /\ SetFsm(u, "category_type", data[u])
    /\ ev' = Ev("delete_category_start", u, t, 0, TRUE)
    /\ UNCHANGED <<procVars, today, storeVars>>
    /\ UNCHANGED concVars

delete_category_type(u, t) ==
    /\ Runs("delete_category_type", u, t)
    /\ LET kind == IF t = BtnIncomes THEN "income" ELSE "expense"
       IN  IF get_user_categories(u, kind) = {}
           THEN Clear(u)
           ELSE SetFsm(u, "delete_category", Upd(data[u], "category_type", kind))
    /\ ev' = Ev("delete_category_type", u, t, 0, TRUE)
    /\ UNCHANGED <<procVars, today, storeVars>>
    /\ UNCHANGED concVars

delete_category_confirm(u, t) ==
    /\ Runs("delete_category_confirm", u, t)
    /\ \E fault \in BOOLEAN :
         /\ user_categories' =
              delete_user_category(u, t, data[u]["category_type"], fault)
         /\ ev' = Ev("delete_category_confirm", u, t, 1,
                     DeleteUserCategoryOK(u, t, data[u]["category_type"], fault))
    /\ Clear(u)
    /\ UNCHANGED <<procVars, today, schema, migrations, transactions,
                   budget_limits, recurring>>
    /\ UNCHANGED concVars

\* ------------------------------------------------------ budget-limit flow
set_limit_start(u, t) ==
    /\ Runs("set_limit_start", u, t)
    /\ SetFsm(u, "limit_category_type", data[u])
    /\ ev' = Ev("set_limit_start", u, t, 0, TRUE)
    /\ UNCHANGED <<procVars, today, storeVars>>
    /\ UNCHANGED concVars

set_limit_type(u, t) ==
    /\ Runs("set_limit_type", u, t)
    /\ LET kind == IF t = BtnLimitIncome THEN "income" ELSE "expense"
       IN  IF OfferedCategories(u, kind) = {}
           THEN Clear(u)
           ELSE SetFsm(u, "limit_category",
                       Upd(data[u], "limit_category_type", kind))
    /\ ev' = Ev("set_limit_type", u, t, 0, TRUE)
    /\ UNCHANGED <<procVars, today, storeVars>>
    /\ UNCHANGED concVars

set_limit_category(u, t) ==
    /\ Runs("set_limit_category", u, t)
    /\ SetFsm(u, "limit_period", Upd(data[u], "limit_category", t))
    /\ ev' = Ev("set_limit_category", u, t, 0, TRUE)
    /\ UNCHANGED <<procVars, today, storeVars>>
    /\ UNCHANGED concVars

period_map == (BtnDay :> "day") @@ (BtnWeek :> "week") @@ (BtnMonth :> "month")

set_limit_period(u, t) ==
    /\ Runs("set_limit_period", u, t)
    /\ IF t \notin DOMAIN period_map
       THEN UNCHANGED fsmVars
       ELSE SetFsm(u, "limit_amount",
                   Upd(data[u], "limit_period", period_map[t]))
    /\ ev' = Ev("set_limit_period", u, t, 0, TRUE)
    /\ UNCHANGED <<procVars, today, storeVars>>
    /\ UNCHANGED concVars

\* Rows budget_limits may hold (a bound of the model).
MaxLimits == 1

\* try: ... finally: await state.clear() -- the finally clause runs on every
\* path: the ValueError, the `amount <= 0` return, the missing-key return and
\* the commit.
set_limit_amount(u, t) ==
    /\ Runs("set_limit_amount", u, t)
    /\ IF ~AmountAccepted(t)
       THEN /\ ev' = Ev("set_limit_amount", u, t, 0, FALSE)
            /\ UNCHANGED budget_limits
       ELSE IF ~({"limit_category_type", "limit_category", "limit_period"}
                     \subseteq DOMAIN data[u])
       THEN /\ ev' = Ev("set_limit_amount", u, t, 0, FALSE)
            /\ UNCHANGED budget_limits
       ELSE \E fault \in BOOLEAN :
              LET d == data[u]
                  new == add_budget_limit(u, d["limit_category"], ParseFloat(t),
                                          d["limit_category_type"],
                                          d["limit_period"], fault)
              IN  /\ Cardinality(new) <= MaxLimits
                  /\ budget_limits' = new
                  /\ ev' = Ev("set_limit_amount", u, t, 1,
                              AddBudgetLimitOK(d["limit_category_type"],
                                               ParseFloat(t), d["limit_category"],
                                               d["limit_period"], fault))
    /\ Clear(u)
    /\ UNCHANGED <<procVars, today, schema, migrations, transactions,
                   user_categories, recurring>>
    /\ UNCHANGED concVars

\* -------------------------------------------------- recurring-template flow
add_recurring_start(u, t) ==
    /\ Runs("add_recurring_start", u, t)
    /\ SetFsm(u, "recurring_type", data[u])
    /\ ev' = Ev("add_recurring_start", u, t, 0, TRUE)
    /\ UNCHANGED <<procVars, today, storeVars>>
    /\ UNCHANGED concVars

add_recurring_type(u, t) ==
    /\ Runs("add_recurring_type", u, t)
    /\ SetFsm(u, "recurring_amount",
              Upd(data[u], "recurring_type",
                  IF t = BtnIncome THEN "income" ELSE "expense"))
    /\ ev' = Ev("add_recurring_type", u, t, 0, TRUE)
    /\ UNCHANGED <<procVars, today, storeVars>>
    /\ UNCHANGED concVars

add_recurring_amount(u, t) ==
    /\ Runs("add_recurring_amount", u, t)
    /\ IF AmountAccepted(t)
       THEN LET d == Upd(data[u], "recurring_amount", ParseFloat(t))
            IN  IF OfferedCategories(u, d["recurring_type"]) = {}
                THEN Clear(u)
                ELSE SetFsm(u, "recurring_category", d)
       ELSE UNCHANGED fsmVars
    /\ ev' = Ev("add_recurring_amount", u, t, 0, TRUE)
    /\ UNCHANGED <<procVars, today, storeVars>>
    /\ UNCHANGED concVars

add_recurring_category(u, t) ==
    /\ Runs("add_recurring_category", u, t)
    /\ SetFsm(u, "recurring_description",
              Upd(data[u], "recurring_category", t))
    /\ ev' = Ev("add_recurring_category", u, t, 0, TRUE)
    /\ UNCHANGED <<procVars, today, storeVars>>
    /\ UNCHANGED concVars

add_recurring_description(u, t) ==
    /\ Runs("add_recurring_description", u, t)
    /\ SetFsm(u, "recurring_frequency",
              Upd(data[u], "recurring_description",
                  IF t = BtnSkip THEN NoneVal ELSE t))
    /\ ev' = Ev("add_recurring_description", u, t, 0, TRUE)
    /\ UNCHANGED <<procVars, today, storeVars>>
    /\ UNCHANGED concVars

freq_map ==
    (BtnDaily :> "daily") @@ (BtnWeekly :> "weekly") @@ (BtnMonthly :> "monthly")

add_recurring_frequency(u, t) ==
    /\ Runs("add_recurring_frequency", u, t)
    /\ IF t \notin DOMAIN freq_map
       THEN /\ ev' = Ev("add_recurring_frequency", u, t, 0, FALSE)
            /\ UNCHANGED <<fsmVars, recurring>>
       ELSE \E fault \in BOOLEAN :
              LET d == data[u]
              IN  /\ recurring' =
                       add_recurring_transaction(
                           u, d["recurring_type"], d["recurring_amount"],
                           d["recurring_category"], freq_map[t],
                           d["recurring_description"], fault)
                  /\ Clear(u)
                  /\ ev' = Ev("add_recurring_frequency", u, t, 1,
                              AddRecurringOK(d["recurring_type"],
                                             d["recurring_amount"],
                                             d["recurring_category"],
                                             freq_map[t], fault))
    /\ UNCHANGED <<procVars, today, schema, migrations, transactions,
                   user_categories, budget_limits>>
    /\ UNCHANGED concVars

\* ------------------------------------------------------------ export flow
export_start(u, t) ==
    /\ Runs("export_start", u, t)
    /\ SetFsm(u, "export_start_date", data[u])
    /\ ev' = Ev("export_start", u, t, 0, TRUE)
    /\ UNCHANGED <<procVars, today, storeVars>>
    /\ UNCHANGED concVars

\* The handler of Form.export_start_date (named export_end_date in the file).
export_end_date(u, t) ==
    /\ Runs("export_end_date", u, t)
    /\ IF ParsesAsDate(t)
       THEN SetFsm(u, "export_end_date",
                   Upd(data[u], "export_start_date", DateTable[t]))
       ELSE UNCHANGED fsmVars
    /\ ev' = Ev("export_end_date", u, t, 0, TRUE)
    /\ UNCHANGED <<procVars, today, storeVars>>
    /\ UNCHANGED concVars

\* (export_format_any: a handler that takes any text for the end date.)
export_format_any(u, t) ==
    /\ Runs("export_format", u, t)
    /\ SetFsm(u, "export_format", Upd(data[u], "export_end_date", t))
    /\ ev' = Ev("export_format", u, t, 0, TRUE)
    /\ UNCHANGED <<procVars, today, storeVars>>
    /\ UNCHANGED concVars

\* The handler of Form.export_end_date (named export_format in the file).
export_format(u, t) ==
    /\ Runs("export_format", u, t)
    /\ IF ParsesAsDate(t)
       THEN SetFsm(u, "export_format",
                   Upd(data[u], "export_end_date", DateTable[t]))
       ELSE UNCHANGED fsmVars
    /\ ev' = Ev("export_format", u, t, 0, TRUE)
    /\ UNCHANGED <<procVars, today, storeVars>>
    /\ UNCHANGED concVars

\* Reads the ledger, sends the file (or an apology), then state.clear().
export_data(u, t) ==
    /\ Runs("export_data", u, t)
    /\ Clear(u)
    /\ ev' = Ev("export_data", u, t, 0, TRUE)
    /\ UNCHANGED <<procVars, today, storeVars>>
    /\ UNCHANGED concVars

\* ----------------------------------------------------------- materializer
\* The due decision of process_recurring_transactions for template r on `now`.
\* A NULL last_processed is -1.
\* (DueMonthOnly: the monthly test without the year.)
DueMonthOnly(r, now) ==
    LET last == r.last_processed
    IN  CASE r.frequency = "daily" -> last = -1 \/ last < now
          [] r.frequency = "weekly" -> last = -1 \/ now - last >= 7
          [] r.frequency = "monthly" ->
               last = -1 \/ MonthOf(last) < MonthOf(now)
          [] OTHER -> FALSE
Due(r, now) ==
    LET last == r.last_processed
    IN  CASE r.frequency = "daily" -> last = -1 \/ last < now
          [] r.frequency = "weekly" -> last = -1 \/ now - last >= 7
          [] r.frequency = "monthly" ->
               \/ last = -1
               \/ MonthOf(last) < MonthOf(now)
               \/ YearOf(last) < YearOf(now)
          [] OTHER -> FALSE

\* The ledger and the templates after the loop body has run for the templates
\* ids (in id order): add_transaction, then update_recurring_transaction.
RECURSIVE MaterializeFrom(_, _, _, _)
MaterializeFrom(i, ids, txs, recs) ==
    IF i > Len(recs) THEN <<txs, recs>>
    ELSE IF i \in ids /\ Due(recs[i], today)
    THEN LET r == recs[i]
             ok == TxInsertOK(r.kind, r.amount, r.category)
             txs2 == IF ok
                     THEN Append(txs, [user |-> r.user, kind |-> r.kind,
                                       amount |-> r.amount,
                                       category |-> r.category, date |-> today,
                                       description |-> r.description])
                     ELSE txs
         IN  MaterializeFrom(i + 1, ids, txs2,
                             [recs EXCEPT ![i].last_processed = today])
    ELSE MaterializeFrom(i + 1, ids, txs, recs)

\* One pass of the `while True` loop of process_recurring_transactions, up to
\* its sleep.
process_recurring_transactions ==
    /\ Running
    /\ matTask
    /\ LET res == MaterializeFrom(1, get_recurring_transactions, transactions,
                                  recurring)
       IN  /\ Len(res[1]) <= MaxTx
           /\ transactions' = res[1]
           /\ recurring' = res[2]
    /\ ev' = Ev("process_recurring_transactions", 0, "", 0, TRUE)
    /\ UNCHANGED <<procVars, today, schema, migrations, user_categories,
                   budget_limits, fsmVars>>
    /\ UNCHANGED concVars

\* The loop taken step by step.  A cycle begins at the head of `while True`,
\* which the task reaches only when the previous sleep has returned.
MatMayBeginAnytime == TRUE
MatMayBegin == mat.pc = "top"

\* The try block up to its sleep: now, get_recurring_transactions, the loop
\* body for each row, then `await asyncio.sleep(6 * 3600)` is entered.
recurring_cycle_scan ==
    /\ Running
    /\ matTask
    /\ mat.pc # "none"
    /\ MatMayBegin
    /\ LET res == MaterializeFrom(1, get_recurring_transactions, transactions,
                                  recurring)
       IN  /\ Len(res[1]) <= MaxTx
           /\ transactions' = res[1]
           /\ recurring' = res[2]
    /\ mat' = [mat EXCEPT !.pc = "sleep", !.cycles = @ + 1]
    /\ ev' = Ev("process_recurring_transactions", 0, "", 0, TRUE)
    /\ UNCHANGED <<procVars, today, schema, migrations, user_categories,
                   budget_limits, fsmVars, conn, hpc>>

\* The sleep returns: the cycle is over and the loop is at its head again.
recurring_cycle_sleep ==
    /\ Running
    /\ mat.pc = "sleep"
    /\ mat' = [mat EXCEPT !.pc = "top", !.cycles = @ - 1]
    /\ ev' = Ev("sleep", 0, "", 0, TRUE)
    /\ UNCHANGED <<procVars, today, storeVars, fsmVars, conn, hpc>>

\* The decision the loop body takes on row i (`process`).
due_decision(i) ==
    /\ Running
    /\ matTask
    /\ i \in DOMAIN recurring
    /\ recurring[i].is_active
    /\ ev' = Ev("due_decision", 0, "", 0, Due(recurring[i], today))
    /\ UNCHANGED <<procVars, today, storeVars, fsmVars, concVars>>

\* The loop body for row i when `process` is true: add_transaction, then
\* update_recurring_transaction(last_processed = today); the value either
\* call returns is not looked at.  insert_fault and update_fault are storage
\* errors in the two calls, each answered with False by the method's except.
recurring_loop_body(i, insert_fault, update_fault) ==
    /\ Running
    /\ matTask
    /\ i \in DOMAIN recurring
    /\ recurring[i].is_active
    /\ Due(recurring[i], today)
    /\ Len(transactions) < MaxTx
    /\ LET r == recurring[i]
       IN  /\ transactions' =
                add_transaction(r.user, r.kind, r.amount, r.category,
                                r.description, insert_fault)
           /\ recurring' =
                IF update_fault THEN recurring
                ELSE [recurring EXCEPT ![i].last_processed = today]
           /\ ev' = [h |-> "recurring_loop_body", user |-> 0, text |-> "",
                     from |-> NoneVal, calls |-> 2,
                     ok |-> AddTransactionOK(r.kind, r.amount, r.category,
                                             insert_fault),
                     updated |-> ~update_fault]
    /\ UNCHANGED <<procVars, today, schema, migrations, user_categories,
                   budget_limits, fsmVars, concVars>>

Lifecycle ==
    \/ StartProcess
    \/ _create_migrations_table
    \/ _is_migration_applied
    \/ _migration_initial_schema
    \/ _migration_add_description_column
    \/ _migration_fix_budget_limits
    \/ _mark_migration_applied
    \/ MigrationStorageError
    \/ Kill

\* -------------------------------------------------------- specifications
\* The user who sends messages (rows of both users may be in the store).
Speakers == {1}

\* Spec: the process from its first start on an empty store file, the
\* materializer, and the transaction entry flow.  The texts: cancel and back,
\* the two kind buttons, and free text that is a valid amount ("10") and an
\* amount float() accepts although it is no positive number ("nan"); both are
\* also texts no category keyboard offers.
Texts == {BtnCancel, BtnBackSettings, BtnIncome, BtnExpense, "10", "nan"}

\* One inbound message: the dispatcher runs one handler.
Message(u, t) ==
    \/ cancel_handler(u, t)
    \/ back_to_settings(u, t)
    \/ transaction_type_handler(u, t)
    \/ transaction_amount_handler(u, t)
    \/ transaction_category_handler(u, t)
    \/ transaction_description_handler(u, t)
    \/ unhandled(u, t)

Next ==
    \/ Lifecycle
    \/ process_recurring_transactions
    \/ \E u \in Speakers, t \in Texts : Message(u, t)

Spec == Init /\ [][Next]_vars

\* MigSpec: the process and its migrations alone.
MigNext == Lifecycle
MigSpec == Init /\ [][MigNext]_vars

\* The state once on_startup has returned on an empty store file (Init, then
\* StartProcess and every step of connect()).
StartedOnFreshStore ==
    /\ proc = "running"
    /\ pc = NoPc
    /\ connects = 1
    /\ ran = {1, 2, 3}
    /\ failure = NoFailure
    /\ matTask = TRUE
    /\ today = 0
    /\ schema = FullSchema
    /\ migrations = MigrationNames
    /\ transactions = <<>>
    /\ user_categories = {}
    /\ budget_limits = {}
    /\ recurring = <<>>
    /\ state = [u \in Users |-> NoneVal]
    /\ data = [u \in Users |-> EmptyDraft]
    /\ ev = Ev("_mark_migration_applied", 0, "", 1, TRUE)
    /\ conn = OpenConn
    /\ hpc = NoHandlerTasks
    /\ mat = [pc |-> "top", cycles |-> 0, tasks |-> 1]

\* FlowSpec: the flows of a running bot up to their last step (budget limit,
\* export, the first steps of transaction entry and the first step of the
\* category and recurring flows).  The texts: the buttons of those flows, a
\* valid amount ("10"), a date, and "abc", which is no number, no date, no
\* period and no offered category.
FlowTexts ==
    {BtnCancel, BtnIncome, BtnSetLimit, BtnLimitExpense, "Eda", BtnMonth, "10", "abc",
     BtnExport, "2024-01-15", BtnAddRecurring, BtnAddCategory}

FlowMessage(u, t) ==
    \/ cancel_handler(u, t)
    \/ transaction_type_handler(u, t)
    \/ transaction_amount_handler(u, t)
    \/ transaction_category_handler(u, t)
    \/ add_category_start(u, t)
    \/ set_limit_start(u, t)
    \/ set_limit_type(u, t)
    \/ set_limit_category(u, t)
    \/ set_limit_period(u, t)
    \/ set_limit_amount(u, t)
    \/ add_recurring_start(u, t)
    \/ export_start(u, t)
    \/ export_end_date(u, t)
    \/ export_format(u, t)
    \/ unhandled(u, t)

FlowNext == \E u \in Speakers, t \in FlowTexts : FlowMessage(u, t)
FlowSpec == StartedOnFreshStore /\ [][FlowNext]_vars

\* EntrySpec: the transaction entry flow and the materializer of a running
\* bot.  The texts: cancel, the two kind buttons, a valid amount ("10"), an
\* amount float() accepts although it is no positive number ("nan"), and an
\* amount the handler refuses ("-5"); the three are also texts no category
\* keyboard offers.
EntryTexts == {BtnCancel, BtnIncome, BtnExpense, "10", "nan", "-5"}

EntryMessage(u, t) ==
    \/ cancel_handler(u, t)
    \/ transaction_type_handler(u, t)
    \/ transaction_amount_handler(u, t)
    \/ transaction_category_handler(u, t)
    \/ transaction_description_handler(u, t)
    \/ unhandled(u, t)

EntryNext ==
    \/ process_recurring_transactions
    \/ \E u \in Speakers, t \in EntryTexts : EntryMessage(u, t)
EntrySpec == StartedOnFreshStore /\ [][EntryNext]_vars

\* PairSpec: the transaction entry flow of a running bot with both users
\* sending messages in any interleaving.  The texts: cancel, the two kind
\* buttons, and "10", which is a valid amount, a category and a description.
PairTexts == {BtnCancel, BtnIncome, BtnExpense, "10"}
PairNext == \E u \in Users, t \in PairTexts : EntryMessage(u, t)
PairSpec == StartedOnFreshStore /\ [][PairNext]_vars

\* CategorySpec: the category flows of a running bot as the dispatcher runs
\* them.  The texts: cancel, the two flow buttons, the two kind buttons and a
\* category name.
CategoryTexts ==
    {BtnCancel, BtnAddCategory, BtnDeleteCategory, BtnIncomes, BtnExpenses, "Eda"}
CategoryMessage(u, t) ==
    \/ cancel_handler(u, t)
    \/ add_category_start(u, t)
    \/ add_category_type(u, t)
    \/ add_category_name(u, t)
    \/ delete_category_start(u, t)
    \/ unhandled(u, t)
CategoryNext == \E u \in Speakers, t \in CategoryTexts : CategoryMessage(u, t)
CategorySpec == StartedOnFreshStore /\ [][CategoryNext]_vars

\* DraftSpec: every way back to idle of a running bot: cancel, back to the
\* settings, the end of transaction entry and of the export.  The texts: the
\* buttons of those flows, "10" (an amount, a category and a description)
\* and a date.
DraftTexts ==
    {BtnCancel, BtnBackSettings, BtnIncome, "10", BtnExport, "2024-01-15", BtnCSV}
DraftMessage(u, t) ==
    \/ cancel_handler(u, t)
    \/ back_to_settings(u, t)
    \/ transaction_type_handler(u, t)
    \/ transaction_amount_handler(u, t)
    \/ transaction_category_handler(u, t)
    \/ transaction_description_handler(u, t)
    \/ export_start(u, t)
    \/ export_end_date(u, t)
    \/ export_format(u, t)
    \/ export_data(u, t)
    \/ unhandled(u, t)
DraftNext == \E u \in Speakers, t \in DraftTexts : DraftMessage(u, t)
DraftSpec == StartedOnFreshStore /\ [][DraftNext]_vars

\* LimitSpec: the budget-limit flow of a running bot.  The texts: cancel,
\* the flow button, the two kind buttons, a category, two periods, and the
\* amounts "10", "nan" (which float() accepts) and "-5".
LimitTexts ==
    {BtnCancel, BtnSetLimit, BtnLimitIncome, BtnLimitExpense, "Eda", BtnDay,
     BtnMonth, "10", "nan", "-5"}
LimitMessage(u, t) ==
    \/ cancel_handler(u, t)
    \/ set_limit_start(u, t)
    \/ set_limit_type(u, t)
    \/ set_limit_category(u, t)
    \/ set_limit_period(u, t)
    \/ set_limit_amount(u, t)
    \/ unhandled(u, t)
LimitNext == \E u \in Speakers, t \in LimitTexts : LimitMessage(u, t)
LimitSpec == StartedOnFreshStore /\ [][LimitNext]_vars

\* TemplateSpec: the materializer of a running bot on a store file whose
\* recurring_transactions table holds one template row.  The days: both sides
\* of a day, a week, a month and a year boundary of the model's calendar.
TemplateDays == {0, 1, 6, 7, 8, 29, 30, 359, 360, 390}
TemplateRows ==
    [user : {1}, kind : {"income"}, amount : {Num(100)}, category : {"Eda"},
     description : {NoneVal}, frequency : {"daily", "weekly", "monthly"},
     start_date : {0}, last_processed : TemplateDays \cup {-1},
     is_active : BOOLEAN]
TemplateInit ==
    /\ proc = "running"
    /\ pc = NoPc
    /\ connects = 1
    /\ ran = {}
    /\ failure = NoFailure
    /\ matTask = TRUE
    /\ today \in TemplateDays
    /\ schema = FullSchema
    /\ migrations = MigrationNames
    /\ transactions = <<>>
    /\ user_categories = {}
    /\ budget_limits = {}
    /\ \E r \in TemplateRows :
           /\ r.last_processed <= today
           /\ recurring = <<r>>
    /\ state = [u \in Users |-> NoneVal]
    /\ data = [u \in Users |-> EmptyDraft]
    /\ ev = Ev("_is_migration_applied", 0, "", 0, TRUE)
    /\ conn = OpenConn
    /\ hpc = NoHandlerTasks
    /\ mat = [pc |-> "top", cycles |-> 0, tasks |-> 1]
TemplateNext ==
    \/ recurring_cycle_scan
    \/ recurring_cycle_sleep
    \/ \E i \in 1..1 : due_decision(i)
TemplateSpec == TemplateInit /\ [][TemplateNext]_vars
\* The event loop runs a task that is ready: the scan when the loop is at its
\* head, the wake-up when the sleep is over.
FairTemplateSpec ==
    /\ TemplateSpec
    /\ WF_vars(recurring_cycle_scan)
    /\ WF_vars(recurring_cycle_sleep)

\* StoreSpec: calls of the ledger's two methods on the store of a running bot,
\* with the days passing.  The calls: each user with each kind, with a
\* description and with none, with a storage error or none; the queries: every
\* pair of the first two days, each possibly left out, and a limit below and
\* above the number of rows.
StoreCalls ==
    {<<1, "income", NoneVal>>, <<1, "expense", "obed">>,
     <<2, "income", "obed">>, <<2, "expense", NoneVal>>}
QueryDates == {NoDate, 0, 1}
QueryLimits == {1, 2, DefaultLimit}
add_transaction_call(u, kind, description, fault) ==
    /\ Running
    /\ Len(transactions) < MaxTx
    /\ transactions' =
         add_transaction(u, kind, Num(100), "Eda", description, fault)
    /\ ev' = [h |-> "add_transaction", user |-> u, text |-> "",
              from |-> state[u], calls |-> 1,
              ok |-> AddTransactionOK(kind, Num(100), "Eda", fault),
              args |-> <<kind, Num(100), "Eda", description>>]
    /\ UNCHANGED <<procVars, today, schema, migrations, user_categories,
                   budget_limits, recurring, fsmVars, concVars>>
get_transactions_call(u, start, end, limit) ==
    /\ Running
    /\ ev' = [h |-> "get_transactions", user |-> u, text |-> "",
              from |-> state[u], calls |-> 1, ok |-> TRUE,
              args |-> <<start, end, limit>>,
              rows |-> get_transactions_rowids(u, start, end, limit)]
    /\ UNCHANGED <<procVars, today, storeVars, fsmVars, concVars>>
StoreNext ==
    \/ Tick
    \/ \E c \in StoreCalls, fault \in BOOLEAN :
          add_transaction_call(c[1], c[2], c[3], fault)
    \/ \E u \in Users, start \in QueryDates, end \in QueryDates,
          limit \in QueryLimits :
          get_transactions_call(u, start, end, limit)
StoreSpec == StartedOnFreshStore /\ [][StoreNext]_vars

\* ConnSpec: the handler tasks of two users on the one connection, taken at
\* the awaits of add_transaction.  An executed INSERT is pending in the
\* connection's open transaction until a commit or a rollback; `by` is the
\* user whose handler executed the INSERT and `live` says that this handler
\* has not finished yet.  A
\* user's next message is taken here when their handler has finished, and no
\* message is taken after on_shutdown.
ConnTexts == {BtnIncome, "10"}
PendingRows == [k \in DOMAIN conn.pending |-> conn.pending[k].row]

\* transaction_description_handler up to `await cursor.execute(INSERT ...)`.
add_transaction_execute(u, t) ==
    /\ Runs("transaction_description_handler", u, t)
    /\ LET d == data[u]
           description == IF t = BtnSkip THEN NoneVal ELSE t
       IN  /\ TxInsertOK(d["transaction_type"], d["transaction_amount"],
                         d["transaction_category"])
           /\ Len(transactions) + Len(conn.pending) < MaxTx
           /\ conn' = [conn EXCEPT !.pending =
                         Append(@, [by |-> u, live |-> TRUE,
                                    row |-> TxRow(u, d["transaction_type"],
                                                  d["transaction_amount"],
                                                  d["transaction_category"],
                                                  description)])]
    /\ hpc' = [hpc EXCEPT ![u] = "executed"]
    /\ ev' = Ev("add_transaction_execute", u, t, 1, TRUE)
    /\ UNCHANGED <<procVars, today, storeVars, fsmVars, mat>>

\* `await self.conn.commit()` and the rest of the handler.  The commit makes
\* the whole open transaction durable; it raises on a closed connection and on
\* a storage error, after which the open transaction is either still open
\* ("kept": nothing rolls it back) or rolled back by the engine.
CommitOutcomes == {"committed", "kept", "rolled_back"}
add_transaction_commit(u, outcome) ==
    /\ Running
    /\ hpc[u] = "executed"
    /\ ~conn.open => outcome = "kept"
    /\ transactions' = IF conn.open /\ outcome = "committed"
                       THEN transactions \o PendingRows
                       ELSE transactions
    /\ conn' = IF conn.open /\ outcome = "kept"
               THEN [conn EXCEPT !.pending =
                       [k \in DOMAIN @ |->
                          IF @[k].by = u THEN [@[k] EXCEPT !.live = FALSE]
                          ELSE @[k]]]
               ELSE [conn EXCEPT !.pending = <<>>]
    /\ Clear(u)
    /\ hpc' = [hpc EXCEPT ![u] = "idle"]
    /\ ev' = Ev("add_transaction_commit", u, "", 1,
                conn.open /\ outcome = "committed")
    /\ UNCHANGED <<procVars, today, schema, migrations, user_categories,
                   budget_limits, recurring, mat>>

\* on_shutdown: `await db.close()`.  Closing rolls the open transaction back;
\* the handler tasks are neither awaited nor cancelled.
on_shutdown ==
    /\ Running
    /\ conn.open
    /\ conn' = ClosedConn
    /\ ev' = Ev("on_shutdown", 0, "", 0, TRUE)
    /\ UNCHANGED <<procVars, today, storeVars, fsmVars, hpc, mat>>

ConnMessage ==
    \E u \in Users, t \in ConnTexts :
        /\ conn.open
        /\ hpc[u] = "idle"
        /\ \/ transaction_type_handler(u, t)
           \/ transaction_amount_handler(u, t)
           \/ transaction_category_handler(u, t)
           \/ add_transaction_execute(u, t)
ConnNext ==
    \/ ConnMessage
    \/ \E u \in Users, outcome \in CommitOutcomes :
          add_transaction_commit(u, outcome)
    \/ on_shutdown
ConnSpec == StartedOnFreshStore /\ [][ConnNext]_vars

\* ReadSpec: the read queries on a ledger that add_transaction calls of the
\* two users have built: up to three rows, dated the Sunday before the last
\* two days of a month (day 27), the last day of the month (29) or the first
\* day of the next (30), in creation order and not after today.
ReadDays == {27, 29, 30}
ReadShapes ==
    {<<1, "income", "Zarplata", 100>>, <<1, "expense", "Eda", 40>>,
     <<1, "expense", "Eda", 30>>, <<1, "expense", "Eda", 20>>,
     <<1, "expense", "Taksi", 40>>, <<2, "expense", "Eda", 30>>,
     <<2, "income", "Zarplata", 100>>}
ReadRows ==
    {[user |-> s[1], kind |-> s[2], amount |-> Num(s[4]), category |-> s[3],
      date |-> d, description |-> NoneVal] : s \in ReadShapes, d \in ReadDays}
ReadLedgers ==
    {l \in UNION {[1..n -> ReadRows] : n \in 0..3} :
        \A i, j \in DOMAIN l : i < j => l[i].date <= l[j].date}
\* A month's expenses of user 1 in one category more than the statistics
\* queries return.
ManyCategories ==
    [i \in 1..(StatsLimit + 1) |->
       [user |-> 1, kind |-> "expense", amount |-> Num(10 * i),
        category |-> ToString(i), date |-> 29, description |-> NoneVal]]
ReadInit ==
    /\ proc = "running"
    /\ pc = NoPc
    /\ connects = 1
    /\ ran = {}
    /\ failure = NoFailure
    /\ matTask = TRUE
    /\ today \in {29, 30}
    /\ schema = FullSchema
    /\ migrations = MigrationNames
    /\ transactions \in ReadLedgers \cup {ManyCategories}
    /\ \A i \in DOMAIN transactions : transactions[i].date <= today
    /\ user_categories = {}
    /\ budget_limits = {}
    /\ recurring = <<>>
    /\ state = [u \in Users |-> NoneVal]
    /\ data = [u \in Users |-> EmptyDraft]
    /\ ev = Ev("_is_migration_applied", 0, "", 0, TRUE)
    /\ conn = OpenConn
    /\ hpc = NoHandlerTasks
    /\ mat = [pc |-> "top", cycles |-> 0, tasks |-> 1]

\* The balance query: get_balance of main.py and get_current_balance.
balance_call(u) ==
    /\ Running
    /\ ev' = [h |-> "get_balance", user |-> u, text |-> "", from |-> state[u],
              calls |-> 1, ok |-> TRUE,
              res |-> <<get_balance(u)[1], get_balance(u)[2],
                        get_current_balance(u)>>]
    /\ UNCHANGED <<procVars, today, storeVars, fsmVars, concVars>>
\* The monthly breakdown: the queries of statistics_handler, and
\* get_monthly_stats of main.py for the expenses.
statistics_call(u, kind, first) ==
    /\ Running
    /\ ev' = [h |-> "statistics", user |-> u, text |-> "", from |-> state[u],
              calls |-> 1, ok |-> TRUE, args |-> <<kind>>,
              res |-> statistics_query(u, kind, first),
              old |-> get_monthly_stats(u, first)]
    /\ UNCHANGED <<procVars, today, storeVars, fsmVars, concVars>>
\* balance_handler: get_current_balance, whose except answers a storage
\* error with 0, then a SELECT of the month's two sums on db.conn itself,
\* outside any try; `raised` says that the handler ended in the exception.
balance_handler(u, fault1, fault2) ==
    /\ Running
    /\ ev' = [h |-> "balance_handler", user |-> u, text |-> BtnBalance,
              from |-> state[u], calls |-> 2, ok |-> ~fault2,
              raised |-> fault2,
              res |-> IF fault2 THEN <<>>
                      ELSE <<IF fault1 THEN 0 ELSE get_current_balance(u),
                             SumAmounts(StatsRows(u, "income")),
                             SumAmounts(StatsRows(u, "expense"))>>]
    /\ UNCHANGED <<procVars, today, storeVars, fsmVars, concVars>>
\* history_handler: get_transactions(user, limit=10), whose except answers a
\* storage error with [].
HistoryLimit == 10
history_handler(u, fault) ==
    /\ Running
    /\ ev' = [h |-> "history_handler", user |-> u, text |-> BtnHistory,
              from |-> state[u], calls |-> 1, ok |-> ~fault, raised |-> FALSE,
              res |-> IF fault THEN <<>>
                      ELSE get_transactions(u, NoDate, NoDate, HistoryLimit)]
    /\ UNCHANGED <<procVars, today, storeVars, fsmVars, concVars>>
Periods == {"day", "week", "month"}
get_category_spending_call(u, period, utc) ==
    /\ Running
    /\ ev' = [h |-> "get_category_spending", user |-> u, text |-> "",
              from |-> state[u], calls |-> 1, ok |-> TRUE,
              args |-> <<"Eda", "expense", period, utc>>,
              res |-> get_category_spending(u, "Eda", "expense", period, utc)]
    /\ UNCHANGED <<procVars, today, storeVars, fsmVars, concVars>>
ReadNext ==
    \/ \E u \in Users : balance_call(u)
    \/ \E u \in Users, fault1 \in BOOLEAN, fault2 \in BOOLEAN :
          balance_handler(u, fault1, fault2)
    \/ \E u \in Users, fault \in BOOLEAN : history_handler(u, fault)
    \/ \E u \in Users, period \in Periods, utc \in {today - 1, today, today + 1} :
          get_category_spending_call(u, period, utc)
    \/ \E u \in Users, kind \in Kinds, first \in BOOLEAN :
          statistics_call(u, kind, first)
ReadSpec == ReadInit /\ [][ReadNext]_vars

\* SettingsSpec: calls of the category and budget-limit methods on the store
\* of a running bot whose ledger holds one expense of user 1 in "Eda".  The
\* calls: both users, the category "Eda" of either kind, limits of 500 and 700
\* and a NaN for "Eda" per week or month, each with a storage error or none.
SettingsInit ==
    /\ proc = "running"
    /\ pc = NoPc
    /\ connects = 1
    /\ ran = {1, 2, 3}
    /\ failure = NoFailure
    /\ matTask = TRUE
    /\ today = 0
    /\ schema = FullSchema
    /\ migrations = MigrationNames
    /\ transactions = <<TxRow(1, "expense", Num(100), "Eda", NoneVal)>>
    /\ user_categories = {}
    /\ budget_limits = {}
    /\ recurring = <<>>
    /\ state = [u \in Users |-> NoneVal]
    /\ data = [u \in Users |-> EmptyDraft]
    /\ ev = Ev("add_transaction", 1, "", 1, TRUE)
    /\ conn = OpenConn
    /\ hpc = NoHandlerTasks
    /\ mat = [pc |-> "top", cycles |-> 0, tasks |-> 1]
add_user_category_call(u, kind, fault) ==
    /\ Running
    /\ user_categories' = add_user_category(u, "Eda", kind, fault)
    /\ ev' = [h |-> "add_user_category", user |-> u, text |-> "",
              from |-> state[u], calls |-> 1,
              ok |-> AddUserCategoryOK(u, "Eda", kind, fault),
              args |-> <<"Eda", kind, fault>>]
    /\ UNCHANGED <<procVars, today, schema, migrations, transactions,
                   budget_limits, recurring, fsmVars, concVars>>
delete_user_category_call(u, kind, fault) ==
    /\ Running
    /\ user_categories' = delete_user_category(u, "Eda", kind, fault)
    /\ ev' = [h |-> "delete_user_category", user |-> u, text |-> "",
              from |-> state[u], calls |-> 1,
              ok |-> DeleteUserCategoryOK(u, "Eda", kind, fault),
              args |-> <<"Eda", kind, fault>>]
    /\ UNCHANGED <<procVars, today, schema, migrations, transactions,
                   budget_limits, recurring, fsmVars, concVars>>
LimitAmounts == {Num(500), Num(700), NaN}
add_budget_limit_call(u, amount, period, fault) ==
    /\ Running
    /\ budget_limits' = add_budget_limit(u, "Eda", amount, "expense", period, fault)
    /\ ev' = [h |-> "add_budget_limit", user |-> u, text |-> "",
              from |-> state[u], calls |-> 1,
              ok |-> AddBudgetLimitOK("expense", amount, "Eda", period, fault),
              args |-> <<"Eda", amount, "expense", period>>,
              prev |-> {r.amount : r \in {x \in budget_limits :
                          LimitKey(x) = <<u, "Eda", "expense", period>>}}]
    /\ UNCHANGED <<procVars, today, schema, migrations, transactions,
                   user_categories, recurring, fsmVars, concVars>>
SettingsNext ==
    \/ \E u \in Users, kind \in Kinds, fault \in BOOLEAN :
          \/ add_user_category_call(u, kind, fault)
          \/ delete_user_category_call(u, kind, fault)
    \/ \E u \in Users, amount \in LimitAmounts, period \in {"week", "month"},
          fault \in BOOLEAN :
          add_budget_limit_call(u, amount, period, fault)
SettingsSpec == SettingsInit /\ [][SettingsNext]_vars

\* OwnerSpec: the writes of two users to the ledger, the categories and the
\* budget limits of a running bot whose store holds a ledger row of user 1.
OwnerNext ==
    \/ \E c \in StoreCalls : add_transaction_call(c[1], c[2], c[3], FALSE)
    \/ \E u \in Users, kind \in Kinds :
          \/ add_user_category_call(u, kind, FALSE)
          \/ delete_user_category_call(u, kind, FALSE)
    \/ \E u \in Users, amount \in {Num(500), Num(700)} :
          add_budget_limit_call(u, amount, "month", FALSE)
OwnerSpec == SettingsInit /\ [][OwnerNext]_vars

\* BodySpec: the loop body of the materializer applied to the template row
\* of TemplateInit, with and without a storage error in each of its calls.
BodyNext ==
    \E insert_fault \in BOOLEAN, update_fault \in BOOLEAN :
       recurring_loop_body(1, insert_fault, update_fault)
BodySpec == TemplateInit /\ [][BodyNext]_vars

\* UpgradeSpec: the process started on the store file of the version that
\* had the first two migrations: budget_limits is the table of
\* _migration_initial_schema, without period and without a UNIQUE key, and
\* holds up to two rows.
SchemaBeforeFix ==
    [t \in {"_migrations", "transactions", "user_categories", "budget_limits",
            "recurring_transactions"} |->
        CASE t = "_migrations" -> {"id", "name", "applied_at"}
          [] t = "transactions" -> TransactionsCols \cup {"description"}
          [] t = "user_categories" -> UserCategoriesCols
          [] t = "budget_limits" -> BudgetLimitsCols
          [] t = "recurring_transactions" -> RecurringCols]
OldLimitRows ==
    [id : {1, 2}, user : Users, category : {"Eda"}, kind : {"expense"},
     amount : {Num(500), Num(700)}]
OldLimitTables ==
    {S \in SUBSET OldLimitRows : \A a, b \in S : a.id = b.id => a = b}
UpgradeInit ==
    /\ proc = "stopped"
    /\ pc = NoPc
    /\ connects = 0
    /\ ran = {}
    /\ failure = NoFailure
    /\ matTask = FALSE
    /\ today = 0
    /\ schema = SchemaBeforeFix
    /\ migrations = SubSeq(MigrationNames, 1, 2)
    /\ transactions = <<>>
    /\ user_categories = {}
    /\ budget_limits \in OldLimitTables
    /\ recurring = <<>>
    /\ state = [u \in Users |-> NoneVal]
    /\ data = [u \in Users |-> EmptyDraft]
    /\ ev = NoEv
    /\ conn = ClosedConn
    /\ hpc = NoHandlerTasks
    /\ mat = NoMat
UpgradeNext ==
    \/ StartProcess
    \/ _create_migrations_table
    \/ _is_migration_applied
    \/ _migration_fix_budget_limits
    \/ _mark_migration_applied
    \/ MigrationStorageError
    \/ Kill
UpgradeSpec == UpgradeInit /\ [][UpgradeNext]_vars

\* MatSpec: the process, its migrations and the materializer loop.
MatNext == Lifecycle \/ recurring_cycle_scan \/ recurring_cycle_sleep
MatSpec == Init /\ [][MatNext]_vars

\* ----------------------------------------------------------- migrations
AllRecorded == Range(migrations) = Range(MigrationNames)
RecordedOnce == Len(migrations) = Cardinality(Range(migrations))

\* C1: connect() run again on a store whose migrations are all recorded
\* executes no migration body: _migrations never holds a name twice, a
\* process that has started has exactly one row per declared migration
\* (3 rows), and from the moment all three are recorded no step enters a
\* body or changes the schema or _migrations.
C1_MigrationsAppliedOnce ==
    /\ [](RecordedOnce /\ (proc = "running" => AllRecorded /\ Len(migrations) = 3))
    /\ [][AllRecorded =>
            /\ ran' \subseteq ran
            /\ schema' = schema
            /\ migrations' = migrations]_vars

\* The second connect() of a store has returned and entered no body.
C1_SecondConnectRanNothing ==
    /\ proc = "running"
    /\ connects = 2
    /\ ran = {}
    /\ migrations = MigrationNames
    /\ schema = FullSchema

\* C2: whatever interrupted the migrations before, a later connect() that is
\* not itself hit by a storage error completes: it never raises on its own,
\* and when it returns every migration is recorded once and the schema is the
\* full one.
C2_RetryCompletes ==
    /\ proc = "failed" => failure.cause = "storage error"
    /\ proc = "running" => AllRecorded /\ RecordedOnce /\ schema = FullSchema

\* C3: when a migration raises, connect() raises: the failed migration is not
\* recorded, no later migration has run, the materializer is not started, and
\* every handler and materializer cycle that runs finds all migrations
\* recorded and the full schema.
LedgerOps ==
    {"cancel_handler", "back_to_settings", "transaction_type_handler",
     "transaction_amount_handler", "transaction_category_handler",
     "transaction_description_handler", "unhandled",
     "process_recurring_transactions"}
C3_FailedMigrationStopsStartup ==
    /\ [](proc = "failed" =>
            /\ failure.at \in 1..NMigrations
            /\ MigrationNames[failure.at] \notin Range(migrations)
            /\ \A m \in ran : m <= failure.at
            /\ \A m \in (failure.at + 1)..NMigrations :
                   MigrationNames[m] \notin Range(migrations)
            /\ ~matTask)
    /\ [](matTask => proc = "running")
    /\ [][(ev'.h \in LedgerOps \/ transactions' # transactions) =>
            AllRecorded /\ schema = FullSchema /\ proc = "running"]_vars

\* A start that failed in the second migration, the first being recorded.
C3_FailedInSecondMigration ==
    /\ proc = "failed"
    /\ failure.at = 2
    /\ migrations = <<MigrationNames[1]>>
    /\ ~matTask

\* --------------------------------------------------------------- ledger
\* C4: every row of the ledger has an amount greater than zero and a kind
\* that is income or expense.
C4_LedgerRowsValid ==
    \A i \in DOMAIN transactions :
        /\ FloatGT0(transactions[i].amount)
        /\ transactions[i].kind \in Kinds

\* The ledger holds an income row and an expense row.
C4_LedgerHasBothKinds ==
    /\ Len(transactions) = 2
    /\ {transactions[i].kind : i \in DOMAIN transactions} = Kinds

\* C5: the ledger is append-only: a row, once written, is in the ledger of
\* every later state, at the same place and with the same fields.
C5_LedgerAppendOnly ==
    [][\A i \in DOMAIN transactions :
           /\ i \in DOMAIN transactions'
           /\ transactions'[i] = transactions[i]]_vars

\* A second row has been committed after the process was started again on a
\* store that already held the first.
C5_SecondRowAfterRestart ==
    /\ Len(transactions) = 2
    /\ connects = 2
    /\ ev.h = "transaction_description_handler"
    /\ ev.ok

\* ---------------------------------------------------- transaction entry
\* A text that states a number greater than zero.
AmountAcceptedStrict(t) == ParsesAsFloat(t) /\ FloatGT0(ParseFloat(t))

\* C6: at the amount step of the transaction flow an amount that is not a
\* number, or is not greater than zero, leaves the user in the same step with
\* the same draft.
C6_InvalidAmountKeepsStep ==
    [][(ev'.h = "transaction_amount_handler" /\ ~AmountAcceptedStrict(ev'.text))
          => state' = state /\ data' = data]_vars

\* C8: at the category step a text that is not one of the offered categories
\* leaves the user in the same step with the same draft.
C8_UnofferedCategoryKeepsStep ==
    [][(/\ ev'.h = "transaction_category_handler"
        /\ state[ev'.user] = "transaction_category"
        /\ ev'.text \notin
             OfferedCategories(ev'.user, data[ev'.user]["transaction_type"]))
          => state' = state /\ data' = data]_vars

\* C10: the description step calls add_transaction exactly once; when the
\* call succeeds the ledger gains exactly the draft's row, when it fails the
\* ledger is unchanged; either way the user is idle with an empty draft
\* afterwards, so nothing retries the commit.
C10_DescriptionCommitsOnce ==
    [][(/\ ev'.h = "transaction_description_handler"
        /\ state[ev'.user] = "transaction_description")
          => LET u == ev'.user
                 d == data[u]
             IN  /\ ev'.calls = 1
                 /\ state'[u] = NoneVal
                 /\ data'[u] = EmptyDraft
                 /\ ev'.ok =>
                      transactions' =
                        Append(transactions,
                               [user |-> u, kind |-> d["transaction_type"],
                                amount |-> d["transaction_amount"],
                                category |-> d["transaction_category"],
                                date |-> today,
                                description |->
                                  IF ev'.text = BtnSkip THEN NoneVal
                                  ELSE ev'.text])
                 /\ ~ev'.ok => transactions' = transactions]_vars

\* A commit has failed and left the user idle with an empty draft.
C10_FailedCommitLeftIdle ==
    /\ ev.h = "transaction_description_handler"
    /\ ~ev.ok
    /\ ev.calls = 1
    /\ state[ev.user] = NoneVal
    /\ data[ev.user] = EmptyDraft

\* ------------------------------------------------------- settings flows
\* C7: the cancel button pressed in any step of a flow ends the flow: the
\* user is idle, the draft is empty and the store is unchanged.
C7_CancelEndsFlow ==
    [][(/\ ev'.h = "cancel_handler"
        /\ ev'.text = BtnCancel
        /\ state[ev'.user] # NoneVal)
          => /\ state'[ev'.user] = NoneVal
             /\ data'[ev'.user] = EmptyDraft
             /\ storeVars' = storeVars]_vars

\* The cancel button has ended the limit flow at its last step.
C7_CancelledAtLimitAmount ==
    /\ ev.h = "cancel_handler"
    /\ ev.text = BtnCancel
    /\ ev.from = "limit_amount"
    /\ state[ev.user] = NoneVal
    /\ data[ev.user] = EmptyDraft

\* C9: at the amount step of the limit flow an amount that is not a number,
\* or is not greater than zero, leaves the user in the same step with the
\* same draft.
C9_InvalidLimitAmountKeepsStep ==
    [][(/\ ev'.h = "set_limit_amount"
        /\ state[ev'.user] = "limit_amount"
        /\ \/ ~ParsesAsFloat(ev'.text)
           \/ FloatLE0(ParseFloat(ev'.text)))
          => state' = state /\ data' = data]_vars

\* C11: starting a flow while the user is in a step of another flow discards
\* the earlier draft: right after the start the draft holds no field of the
\* earlier flow (only what the start itself stores).
FlowOfState(st) ==
    CASE st \in {"transaction_amount", "transaction_category",
                 "transaction_description"} -> "entry"
      [] st \in {"category_type", "category_name", "delete_category"} ->
           "category"
      [] st \in {"limit_category_type", "limit_category", "limit_period",
                 "limit_amount"} -> "limit"
      [] st \in {"recurring_type", "recurring_amount", "recurring_category",
                 "recurring_description", "recurring_frequency"} -> "recurring"
      [] st \in {"export_start_date", "export_end_date", "export_format"} ->
           "export"
      [] OTHER -> "none"
FlowOfStart(h) ==
    CASE h = "transaction_type_handler" -> "entry"
      [] h \in {"add_category_start", "delete_category_start"} -> "category"
      [] h = "set_limit_start" -> "limit"
      [] h = "add_recurring_start" -> "recurring"
      [] h = "export_start" -> "export"
      [] OTHER -> "none"
C11_FlowStartDiscardsDraft ==
    [][(/\ FlowOfStart(ev'.h) # "none"
        /\ FlowOfState(state[ev'.user]) # "none"
        /\ FlowOfState(state[ev'.user]) # FlowOfStart(ev'.h))
          => DOMAIN data'[ev'.user] \subseteq
               (IF ev'.h = "transaction_type_handler"
                THEN {"transaction_type"} ELSE {})]_vars

\* ---------------------------------------------------------- materializer
\* C12: a cycle that finds an active daily template with no last_processed
\* adds exactly one ledger row and sets its last_processed to today; a cycle
\* that finds it already processed today adds nothing.
C12_DailyTemplateOncePerDay ==
    [][(/\ ev'.h = "process_recurring_transactions"
        /\ recurring[1].is_active
        /\ recurring[1].frequency = "daily")
          => /\ recurring[1].last_processed = -1 =>
                  /\ Len(transactions') = Len(transactions) + 1
                  /\ recurring'[1].last_processed = today
             /\ recurring[1].last_processed = today =>
                  transactions' = transactions]_vars

\* The due decision as stated: never processed, or a later day (daily), seven
\* or more days later (weekly), a later (year, month) (monthly).
StatedDue(r, now) ==
    LET last == r.last_processed
    IN  \/ last = -1
        \/ r.frequency = "daily" /\ last < now
        \/ r.frequency = "weekly" /\ now - last >= 7
        \/ /\ r.frequency = "monthly"
           /\ \/ YearOf(last) < YearOf(now)
              \/ YearOf(last) = YearOf(now) /\ MonthOf(last) < MonthOf(now)

\* C13: for an active template and last_processed <= today the decision of
\* the loop body equals the stated one.
C13_DueDecisionAsStated ==
    ev.h = "due_decision" => ev.ok = StatedDue(recurring[1], today)

\* A monthly template is found due across a year boundary, where the month
\* number of today is the smaller one.
C13_MonthlyDueAcrossNewYear ==
    /\ ev.h = "due_decision"
    /\ ev.ok
    /\ recurring[1].frequency = "monthly"
    /\ recurring[1].last_processed # -1
    /\ YearOf(recurring[1].last_processed) < YearOf(today)
    /\ MonthOf(recurring[1].last_processed) > MonthOf(today)

\* C14: a cycle adds, for each active template that is due, one ledger row
\* of the template's user with its kind, amount, category and description,
\* dated today, and sets the template's last_processed to today.
C14_DueTemplateMaterialized ==
    [][(/\ ev'.h = "process_recurring_transactions"
        /\ recurring[1].is_active
        /\ StatedDue(recurring[1], today))
          => /\ transactions' =
                  Append(transactions,
                         [user |-> recurring[1].user,
                          kind |-> recurring[1].kind,
                          amount |-> recurring[1].amount,
                          category |-> recurring[1].category,
                          date |-> today,
                          description |-> recurring[1].description])
             /\ recurring'[1].last_processed = today]_vars

\* C15: the loop keeps cycling, so an active template that is due is
\* eventually materialized: its last_processed becomes today.
C15_DueEventuallyMaterialized ==
    (recurring[1].is_active /\ StatedDue(recurring[1], today))
        ~> (recurring[1].last_processed = today)

\* C16: at most one materializer task exists and at most one cycle is in
\* progress; a cycle begins only at the head of the loop, when no cycle is
\* in progress.
C16_CyclesNeverOverlap ==
    /\ [](mat.tasks <= 1 /\ mat.cycles <= 1 /\ (matTask <=> mat.tasks = 1))
    /\ [][mat'.cycles > mat.cycles => mat.pc = "top" /\ mat.cycles = 0]_vars

\* The second process of a store is in a cycle's sleep.
C16_SecondProcessInCycle ==
    /\ connects = 2
    /\ proc = "running"
    /\ mat = [pc |-> "sleep", cycles |-> 1, tasks |-> 1]

\* ---------------------------------------------------------------- ledger
\* get_transactions(user_id) with its defaults.
Listing(u) == get_transactions(u, NoDate, NoDate, DefaultLimit)

\* C19: after a successful add_transaction, get_transactions for that user
\* returns a record with the kind, amount, category and description of the
\* call and today's date.
C19_AddedRowIsListed ==
    [][\A u \in Users :
         (ev'.h = "add_transaction" /\ ev'.ok /\ ev'.user = u)
           => \E k \in DOMAIN Listing(u)' :
                 Listing(u)'[k] = <<ev'.args[1], ev'.args[2], ev'.args[3],
                                   today, ev'.args[4]>>]_vars

\* A second row, with a description, was added on a later day.
C19_DescribedRowAdded ==
    /\ ev.h = "add_transaction"
    /\ ev.ok
    /\ ev.args[4] # NoneVal
    /\ Len(transactions) = 2
    /\ today > 0

\* The rows a query must choose from, as stated: the user's rows whose date is
\* within the bounds that were given.
StatedMatches(u, start, end) ==
    {i \in DOMAIN transactions :
        /\ transactions[i].user = u
        /\ start = NoDate \/ transactions[i].date >= start
        /\ end = NoDate \/ transactions[i].date <= end}

C17_CommitOnlyOwnWrite ==
    [][(ev'.h = "add_transaction_commit" /\ ev'.ok)
          => \A k \in DOMAIN conn.pending :
                conn.pending[k].by = ev'.user /\ conn.pending[k].live]_vars

\* C18: the connection is closed only when no handler is between the
\* execution of a write and its commit.
C18_CloseAfterInFlightCommits ==
    [][(conn.open /\ ~conn'.open) => \A u \in Users : hpc[u] = "idle"]_vars
\* -------------------------------------------------------------- queries
\* The total of a user's rows of one kind, as stated: the rows taken one by
\* one in ledger order.
RECURSIVE StatedTotal(_, _, _)
StatedTotal(u, kind, n) ==
    IF n = 0 THEN 0
    ELSE StatedTotal(u, kind, n - 1)
           + (IF transactions[n].user = u /\ transactions[n].kind = kind
              THEN transactions[n].amount.val ELSE 0)

\* C21: the balance query yields the sum of the user's income amounts and the
\* sum of the user's expense amounts over all time (0 when there are none),
\* and the net balance is their difference.
C21_BalanceIsSumByKind ==
    ev.h = "get_balance" =>
        /\ ev.res[1] = StatedTotal(ev.user, "income", Len(transactions))
        /\ ev.res[2] = StatedTotal(ev.user, "expense", Len(transactions))
        /\ ev.res[3] = ev.res[1] - ev.res[2]

\* Income 100 and expense 40 of user 1, beside a row of user 2: (100, 40) and
\* net 60.
C21_Income100Expense40 ==
    /\ ev.h = "get_balance"
    /\ ev.user = 1
    /\ ev.res = <<100, 40, 60>>
    /\ Len(transactions) = 3
    /\ \E i \in DOMAIN transactions : transactions[i].user = 2
\* The rows of a user and a kind dated in the current calendar month, and the
\* categories among them.
StatedMonthRows(u, kind) ==
    {i \in DOMAIN transactions :
        /\ transactions[i].user = u
        /\ transactions[i].kind = kind
        /\ YearOf(transactions[i].date) = YearOf(today)
        /\ MonthOf(transactions[i].date) = MonthOf(today)}
\* res is the breakdown of the rows S: one entry for every category of S and
\* no other, each with the sum of the category's amounts, totals descending.
IsBreakdown(res, S) ==
    /\ \A i \in S :
          \E k \in DOMAIN res :
             /\ res[k][1] = transactions[i].category
             /\ \A l \in DOMAIN res : res[l][1] = res[k][1] => l = k
    /\ \A k \in DOMAIN res :
          /\ \E i \in S : transactions[i].category = res[k][1]
          /\ res[k][2] = SumAmounts({i \in S :
                                       transactions[i].category = res[k][1]})
    /\ \A k, l \in DOMAIN res : k < l => res[k][2] >= res[l][2]

\* C22: the monthly breakdown for a user and a kind has exactly one
\* (category, total) entry for every category with a transaction of the user
\* and the kind dated in the current calendar month, the total being the sum
\* of those amounts, in descending order of total.
C22_BreakdownCoversEveryCategory ==
    ev.h = "statistics" =>
        /\ IsBreakdown(ev.res, StatedMonthRows(ev.user, ev.args[1]))
        /\ IsBreakdown(ev.old, StatedMonthRows(ev.user, "expense"))
\* C26: get_category_spending returns the sum of the user's transactions of
\* the category and the kind dated in the current window of the period: the
\* day that add_transaction stamps now, its week, its calendar month; 0 when
\* no row matches.
C26_SpendingInCurrentWindow ==
    ev.h = "get_category_spending" =>
        ev.res = SumAmounts(
                   {i \in DOMAIN transactions :
                      /\ transactions[i].user = ev.user
                      /\ transactions[i].category = ev.args[1]
                      /\ transactions[i].kind = ev.args[2]
                      /\ CASE ev.args[3] = "day" -> transactions[i].date = today
                           [] ev.args[3] = "week" ->
                                /\ transactions[i].date <= today
                                /\ today - transactions[i].date < 7
                                /\ (transactions[i].date % 7) <= (today % 7)
                           [] ev.args[3] = "month" ->
                                /\ YearOf(transactions[i].date) = YearOf(today)
                                /\ MonthOf(transactions[i].date)
                                     = MonthOf(today)})
\* ------------------------------------------------- categories and limits
\* C23: registering a user category that already exists fails and leaves the
\* table as it was; the table never holds two rows of one (user, name, kind).
C23_DuplicateCategoryRefused ==
    [][ev'.h = "add_user_category" =>
         LET key == <<ev'.user, ev'.args[1], ev'.args[2]>>
         IN  /\ key \in user_categories =>
                  ~ev'.ok /\ user_categories' = user_categories
             /\ ev'.ok => user_categories' = user_categories \cup {key}
             /\ Cardinality({x \in user_categories' : x = key}) <= 1]_vars

\* The second registration of a category failed with no storage error.
C23_SecondAddFailed ==
    /\ ev.h = "add_user_category"
    /\ ~ev.ok
    /\ ~ev.args[3]
    /\ <<ev.user, ev.args[1], ev.args[2]>> \in user_categories

C27_NoRawStorageException ==
    ev.h \in {"balance_handler", "history_handler"} => ~ev.raised
\* C28: a message of one user never reads or changes the conversation state
\* or draft of another: the other users' states and drafts stay as they were,
\* the handler is chosen by the sender's own state and the text, and the
\* sender's new state and draft are a function of their own state, their own
\* draft and the text alone, so a user's sequence of states and drafts is the
\* same whatever the others send.
EntryStep(s, d, t) ==
    IF t \in CancelTexts THEN <<NoneVal, IF s = NoneVal THEN d ELSE EmptyDraft>>
    ELSE IF t \in {BtnIncome, BtnExpense}
    THEN <<"transaction_amount",
           Upd(d, "transaction_type", IF t = BtnIncome THEN "income" ELSE "expense")>>
    ELSE IF s = "transaction_amount"
    THEN IF AmountAccepted(t)
         THEN <<"transaction_category", Upd(d, "transaction_amount", ParseFloat(t))>>
         ELSE <<s, d>>
    ELSE IF s = "transaction_category"
    THEN <<"transaction_description", Upd(d, "transaction_category", t)>>
    ELSE IF s = "transaction_description" THEN <<NoneVal, EmptyDraft>>
    ELSE <<s, d>>
C28_ConversationsIsolated ==
    [][\A u \in Users :
         ev'.user = u =>
           /\ \A v \in Users \ {u} : state'[v] = state[v] /\ data'[v] = data[v]
           /\ ev'.h = HandlerFor(state[u], ev'.text)
           /\ <<state'[u], data'[u]>> = EntryStep(state[u], data[u], ev'.text)]_vars
C28_BothUsersMidFlow ==
    /\ ev.user = 2
    /\ ev.h = "transaction_type_handler"
    /\ state[1] = "transaction_description"
    /\ data[1]["transaction_type"] = "income"
    /\ state[2] = "transaction_amount"
    /\ data[2]["transaction_type"] = "expense"
    /\ "transaction_amount" \notin DOMAIN data[2]
\* C29: the recurring-template flow can be completed: a kind button sent at
\* the kind step of the flow is answered by the flow, which goes on to ask
\* for the amount, and the ledger is not written on the way to the template.
C29_KindButtonContinuesRecurringFlow ==
    [][\A u \in Users :
         (ev'.user = u /\ state[u] = "recurring_type"
          /\ ev'.text \in {BtnIncome, BtnExpense}) =>
           /\ ev'.h = "add_recurring_type"
           /\ state'[u] = "recurring_amount"
           /\ "recurring_type" \in DOMAIN data'[u]]_vars
\* C30: the category-delete flow can be completed: a kind button sent in
\* answer to the delete flow's question is taken by the delete flow, which
\* asks for the name of one of the user's categories or, when there is none,
\* ends; it never leads to the step that creates a category.
C30_KindButtonContinuesDeleteFlow ==
    [][\A u \in Users :
         (ev.h = "delete_category_start" /\ ev.user = u /\ ev'.user = u
          /\ ev'.text \in {BtnIncomes, BtnExpenses}) =>
           /\ ev'.h = "delete_category_type"
           /\ state'[u] \in {"delete_category", NoneVal}]_vars
\* ---------------------------------------------------- flows, step by step
\* C31: in transaction entry the conversation state moves only idle ->
\* amount -> category -> description -> idle, apart from cancel (to idle) and
\* a kind button (to the amount step of a new run); each step stores its own
\* answer and keeps the answers of the steps before it, and the ledger gains
\* a row only on leaving the description step, with the kind, amount and
\* category of the draft collected in that run.
EntryOrder ==
    {<<"transaction_amount", "transaction_category">>,
     <<"transaction_category", "transaction_description">>,
     <<"transaction_description", NoneVal>>}
C31_EntryFlowIsLinear ==
    [][/\ \A u \in Users :
            LET s == state[u]
                d == data[u]
                t == ev'.text
            IN  /\ state'[u] # s =>
                     /\ ev'.user = u
                     /\ \/ <<s, state'[u]>> \in EntryOrder
                        \/ t \in CancelTexts /\ state'[u] = NoneVal
                        \/ t \in {BtnIncome, BtnExpense}
                           /\ state'[u] = "transaction_amount"
                /\ (ev'.user = u /\ state'[u] = "transaction_amount"
                    /\ t \in {BtnIncome, BtnExpense}) =>
                     data'[u]["transaction_type"] =
                       (IF t = BtnIncome THEN "income" ELSE "expense")
                /\ (s = "transaction_amount" /\ state'[u] = "transaction_category") =>
                     data'[u] = Upd(d, "transaction_amount", ParseFloat(t))
                /\ (s = "transaction_category"
                    /\ state'[u] = "transaction_description") =>
                     data'[u] = Upd(d, "transaction_category", t)
       /\ transactions' # transactions =>
            LET u == ev'.user
                d == data[u]
                row == transactions'[Len(transactions')]
            IN  /\ u \in Users
                /\ state[u] = "transaction_description"
                /\ state'[u] = NoneVal
                /\ Len(transactions') = Len(transactions) + 1
                /\ SubSeq(transactions', 1, Len(transactions)) = transactions
                /\ row.user = u
                /\ row.kind = d["transaction_type"]
                /\ row.amount = d["transaction_amount"]
                /\ row.category = d["transaction_category"]]_vars
C31_ExpenseCommittedAfterThreeSteps ==
    /\ ev.h = "transaction_description_handler"
    /\ ev.ok
    /\ state[ev.user] = NoneVal
    /\ Len(transactions) = 1
    /\ transactions[1].kind = "expense"
    /\ transactions[1].amount = ParseFloat("10")
\* C32: whenever a user's conversation is idle, that user's draft is empty.
C32_IdleDraftEmpty ==
    \A u \in Users : state[u] = NoneVal => data[u] = EmptyDraft
C32_IdleAfterExport ==
    /\ ev.h = "export_data"
    /\ state[ev.user] = NoneVal
    /\ data[ev.user] = EmptyDraft
    /\ Len(transactions) > 0
\* C33: every budget_limits row the budget-limit flow creates has a limit
\* amount > 0, a kind of income or expense and a period of day, week or
\* month; a period answer that is none of the three offered keeps the user in
\* the period step with the draft unchanged.
C33_LimitRowsValid ==
    [][/\ \A r \in budget_limits' :
            /\ FloatGT0(r.amount)
            /\ r.kind \in Kinds
            /\ r.period \in {"day", "week", "month"}
       /\ (ev'.h = "set_limit_period" /\ ev'.text \notin {BtnDay, BtnWeek, BtnMonth})
            => state' = state /\ data' = data]_vars
C33_DayLimitCreated ==
    /\ ev.h = "set_limit_amount"
    /\ ev.ok
    /\ \E r \in budget_limits :
         r.user = ev.user /\ r.period = "day" /\ r.amount = ParseFloat("10")
C33_NanLimitRefused ==
    /\ ev.h = "set_limit_amount"
    /\ ev.text = "nan"
    /\ ev.calls = 1
    /\ ~ev.ok
    /\ budget_limits = {}
\* C34: in the export flow a text that does not parse as a date, at the
\* start-date step or at the end-date step, leaves the user in that step with
\* the same draft, and a user at the format step has a valid start date and a
\* valid end date in the draft.
ValidDates == {DateTable[t] : t \in DOMAIN DateTable}
C34_UnparseableDateKeepsStep ==
    [][/\ (ev'.h \in {"export_end_date", "export_format"} /\ ~ParsesAsDate(ev'.text))
            => state' = state /\ data' = data
       /\ \A u \in Users :
            state'[u] = "export_format" =>
              /\ {"export_start_date", "export_end_date"} \subseteq DOMAIN data'[u]
              /\ data'[u]["export_start_date"] \in ValidDates
              /\ data'[u]["export_end_date"] \in ValidDates]_vars
C34_RetriedEndDate ==
    /\ ev.h = "export_format"
    /\ ev.text = "abc"
    /\ state[ev.user] = "export_end_date"
    /\ "export_start_date" \in DOMAIN data[ev.user]
    /\ "export_end_date" \notin DOMAIN data[ev.user]
\* C35: every per-user read returns, for every numeric user identifier, only
\* data of rows that user owns: a write of another user changes the result of
\* none of them.
UserIds == {0} \cup Users
Reads(u) ==
    <<get_transactions(u, NoDate, NoDate, DefaultLimit),
      get_user_categories(u, "income"), get_user_categories(u, "expense"),
      get_budget_limits(u),
      [p \in Periods |-> get_category_spending(u, "Eda", "expense", p, today)],
      get_recurring_transactions_of(u),
      get_balance(u), get_current_balance(u)>>
C35_ReadsScopedToOwner ==
    [][\A u \in UserIds : ev'.user # u => Reads(u)' = Reads(u)]_vars
C35_OtherUserWroteLedger ==
    /\ ev.h = "add_transaction"
    /\ ev.user = 2
    /\ ev.ok
    /\ Len(transactions) = 2
    /\ transactions[1].user = 1
    /\ transactions[2].user = 2
    /\ \E r \in budget_limits : r.user = 2
C37_FailedWriteStaysAbsent ==
    [][/\ (ev'.h = "add_transaction_commit" /\ ~ev'.ok)
            => transactions' = transactions
       /\ transactions' # transactions
            => \A k \in DOMAIN conn.pending : conn.pending[k].live]_vars
\* C38: the budget-limits restructuring keeps the data: whatever rows the
\* table of the initial schema holds, the copy step completes, and every row
\* is in the new table with its id, user, category, amount and kind and with
\* the period month.
C38_FixKeepsEveryLimit ==
    [][(/\ pc.m = 3
        /\ pc.step = "s2"
        /\ ev'.h = "_migration_fix_budget_limits")
          => /\ ev'.ok
             /\ proc' # "failed"
             /\ budget_limits' = {WithPeriodMonth(r) : r \in budget_limits}
             /\ Cardinality(budget_limits') = Cardinality(budget_limits)]_vars
\* ------------------------------------------ main.py: single-step entry
\* src/main.py holds two copies of the earlier bot, one after the other: the
\* first written for aiogram 2, the second for aiogram 3.  proc says which
\* copy is running.
FirstCopy == "main_first"
SecondCopy == "main_second"
BtnAddIncome == "[up] Dobavit dohod"          \* "📈 Добавить доход"
BtnAddExpense == "[down] Dobavit rashod"      \* "📉 Добавить расход"
WaitingForTransaction == "waiting_for_transaction"
\* create_tables of main.py: one table, no NOT NULL and no CHECK.
MainSchema ==
    "transactions" :> {"id", "user_id", "type", "amount", "category", "date"}

\* message.text.split(" ", 1) on the texts the model sends.
SplitTable ==
    (BtnAddIncome :> <<"[up]", "Dobavit dohod">>)
    @@ (BtnAddExpense :> <<"[down]", "Dobavit rashod">>)
    @@ ("10 Eda" :> <<"10", "Eda">>) @@ ("Eda" :> <<"Eda">>)
    @@ ("abc Eda" :> <<"abc", "Eda">>) @@ ("-5 Eda" :> <<"-5", "Eda">>)
    @@ ("0 Eda" :> <<"0", "Eda">>) @@ ("nan Eda" :> <<"nan", "Eda">>)
MainTexts == DOMAIN SplitTable
\* "📈" in s
HasIncomeSign(s) == s = BtnAddIncome

\* Database.add_transaction of main.py: the ledger after the call.
main_add_transaction(u, kind, amount, category, fault) ==
    IF ~fault /\ HasTable("transactions")
    THEN Append(transactions,
                [user |-> u, kind |-> kind, amount |-> amount,
                 category |-> category, date |-> today])
    ELSE transactions

\* The kind process_transaction records.  First copy: read from the key
\* last_button of the FSM data; second copy: the key transaction_type.
transaction_type_of(u) ==
    IF proc = FirstCopy
    THEN IF HasIncomeSign(IF "last_button" \in DOMAIN data[u]
                          THEN data[u]["last_button"] ELSE "")
         THEN "income" ELSE "expense"
    ELSE IF "transaction_type" \in DOMAIN data[u]
         THEN data[u]["transaction_type"] ELSE "expense"

\* Which handler takes a text.  First copy: a handler registered without
\* state= runs only for a user with no state.  Second copy: the text filters
\* pass in every state and are registered before process_transaction.
MainHandler(u, t) ==
    IF proc = FirstCopy
    THEN IF state[u] = WaitingForTransaction THEN "process_transaction"
         ELSE IF t = BtnAddIncome THEN "add_income"
         ELSE IF t = BtnAddExpense THEN "add_expense"
         ELSE "handle_unknown"
    ELSE IF t = BtnAddIncome THEN "add_income"
         ELSE IF t = BtnAddExpense THEN "add_expense"
         ELSE IF state[u] = WaitingForTransaction THEN "process_transaction"
         ELSE "handle_unknown"

add_income(u, t) ==
    /\ MainHandler(u, t) = "add_income"
    /\ IF proc = FirstCopy
       THEN SetFsm(u, WaitingForTransaction, data[u])
       ELSE SetFsm(u, WaitingForTransaction,
                   Upd(data[u], "transaction_type", "income"))
    /\ ev' = Ev("add_income", u, t, 0, TRUE)
    /\ UNCHANGED <<procVars, today, storeVars>>
    /\ UNCHANGED concVars

add_expense(u, t) ==
    /\ MainHandler(u, t) = "add_expense"
    /\ IF proc = FirstCopy
       THEN SetFsm(u, WaitingForTransaction, data[u])
       ELSE SetFsm(u, WaitingForTransaction,
                   Upd(data[u], "transaction_type", "expense"))
    /\ ev' = Ev("add_expense", u, t, 0, TRUE)
    /\ UNCHANGED <<procVars, today, storeVars>>
    /\ UNCHANGED concVars

\* The message has two parts, the first is a float and it is not <= 0.
PassesTransactionChecks(t) ==
    /\ Len(SplitTable[t]) >= 2
    /\ ParsesAsFloat(SplitTable[t][1])
    /\ ~FloatLE0(ParseFloat(SplitTable[t][1]))

process_transaction(u, t, fault) ==
    /\ MainHandler(u, t) = "process_transaction"
    /\ IF PassesTransactionChecks(t)
       THEN /\ Len(transactions) < MaxTx
            /\ transactions' =
                 main_add_transaction(u, transaction_type_of(u),
                                      ParseFloat(SplitTable[t][1]),
                                      SplitTable[t][2], fault)
            /\ Clear(u)
            /\ ev' = Ev("process_transaction", u, t, 1, ~fault)
       ELSE /\ ~fault
            /\ UNCHANGED <<transactions, fsmVars>>
            /\ ev' = Ev("process_transaction", u, t, 0, TRUE)
    /\ UNCHANGED <<procVars, today, schema, migrations, user_categories,
                   budget_limits, recurring>>
    /\ UNCHANGED concVars

handle_unknown(u, t) ==
    /\ MainHandler(u, t) = "handle_unknown"
    /\ ev' = Ev("handle_unknown", u, t, 0, TRUE)
    /\ UNCHANGED <<procVars, today, storeVars, fsmVars>>
    /\ UNCHANGED concVars

\* MainSpec: either copy of main.py polling on an empty store file.
MainInit ==
    /\ proc \in {FirstCopy, SecondCopy}
    /\ pc = NoPc
    /\ connects = 1
    /\ ran = {}
    /\ failure = NoFailure
    /\ matTask = FALSE
    /\ today = 0
    /\ schema = MainSchema
    /\ migrations = <<>>
    /\ transactions = <<>>
    /\ user_categories = {}
    /\ budget_limits = {}
    /\ recurring = <<>>
    /\ state = [u \in Users |-> NoneVal]
    /\ data = [u \in Users |-> EmptyDraft]
    /\ ev = NoEv
    /\ conn = OpenConn
    /\ hpc = NoHandlerTasks
    /\ mat = [pc |-> "top", cycles |-> 0, tasks |-> 0]
MainNext ==
    \/ \E u \in Users, t \in MainTexts : add_income(u, t)
    \/ \E u \in Users, t \in MainTexts : add_expense(u, t)
    \/ \E u \in Users, t \in MainTexts, fault \in BOOLEAN :
         process_transaction(u, t, fault)
    \/ \E u \in Users, t \in MainTexts : handle_unknown(u, t)
    \/ Tick
MainSpec == MainInit /\ [][MainNext]_vars

\* The kind of the button a handler name stands for.
KindOfButton(h) == IF h = "add_income" THEN "income" ELSE "expense"
\* C39: in the single-step flow of main.py, a valid "<amount> <category>"
\* message sent after the income or the expense button records a transaction
\* of that button's kind; a message with no category, with an amount that is
\* not a number or with an amount <= 0 records nothing and leaves the user
\* waiting for input.
C39_KindFollowsButton ==
    [][ev'.h = "process_transaction" =>
        /\ (/\ ev.h \in {"add_income", "add_expense"}
            /\ ev.user = ev'.user
            /\ PassesTransactionChecks(ev'.text)
            /\ FloatGT0(ParseFloat(SplitTable[ev'.text][1]))
            /\ ev'.ok)
             => /\ Len(transactions') = Len(transactions) + 1
                /\ transactions'[Len(transactions')].user = ev'.user
                /\ transactions'[Len(transactions')].kind = KindOfButton(ev.h)
        /\ (\/ Len(SplitTable[ev'.text]) < 2
            \/ ~ParsesAsFloat(SplitTable[ev'.text][1])
            \/ FloatLE0(ParseFloat(SplitTable[ev'.text][1])))
             => /\ transactions' = transactions
                /\ state'[ev'.user] = WaitingForTransaction]_vars
====
